---- MODULE Spec2Model ----
(***************************************************************************)
(* Model of the design-recommendation engine of the interior-design        *)
(* backend (design_agent/services.py, class DesignAIService).              *)
(*                                                                         *)
(* Money is held in integer cents.  The source computes in binary floating *)
(* point and rounds to two decimals with round(x, 2); the model computes   *)
(* the same expressions exactly (as quotient/remainder pairs) and rounds   *)
(* half to even.  The two agree except when the exact value is a tie       *)
(* (x.xx5), where the source's result depends on the binary representation *)
(* of the operand; the inputs enumerated below produce no such tie.        *)
(*                                                                         *)
(* A python dict is a sequence of <<key, value>> pairs in insertion order; *)
(* a dict used as a record of optional fields is a TLA+ record whose       *)
(* DOMAIN holds the keys that are present.                                 *)
(***************************************************************************)
EXTENDS Integers, Sequences, FiniteSets, TLC

(***************************************************************************)
(* Exact arithmetic on non-negative integers without overflow.             *)
(***************************************************************************)

\* <<q, r>> with a * b = q * c + r and 0 <= r < c, computed by double-and-add
\* on b so that no intermediate value exceeds max(q, 2 * c).
RECURSIVE MulDivQR(_, _, _)
MulDivQR(a, b, c) ==
    IF b = 0 THEN <<0, 0>>
    ELSE LET h  == MulDivQR(a, b \div 2, c)
             dq == 2 * h[1] + ((2 * h[2]) \div c)
             dr == (2 * h[2]) % c
         IN  IF b % 2 = 0 THEN <<dq, dr>>
             ELSE LET s == dr + (a % c)
                  IN  <<dq + (a \div c) + (s \div c), s % c>>

\* round(q + r / c) to the nearest integer, ties to the even integer
\* (python's round on a value that is exactly representable).
RoundHalfEven(q, r, c) ==
    IF 2 * r > c THEN q + 1
    ELSE IF 2 * r = c THEN (IF q % 2 = 0 THEN q ELSE q + 1)
    ELSE q

\* round(a * b / c)
MulDivRound(a, b, c) ==
    LET qr == MulDivQR(a, b, c) IN RoundHalfEven(qr[1], qr[2], c)

RECURSIVE SumSeq(_)
SumSeq(s) == IF s = <<>> THEN 0 ELSE Head(s) + SumSeq(Tail(s))

\* dict.get(key, default) on a record of optional fields
Get(d, k, default) == IF k \in DOMAIN d THEN d[k] ELSE default

Min(a, b) == IF a <= b THEN a ELSE b


(***************************************************************************)
(* Static data of the service.                                             *)
(***************************************************************************)

\* premium_products of _create_budget_maximizing_product: slot name ->
\* base_price in cents and scaling_factor in tenths.
premium_products ==
    [ kitchen_cabinet    |-> [base_price |-> 200000, scaling_factor |-> 15],
      modular_cabinets   |-> [base_price |-> 200000, scaling_factor |-> 15],
      kitchen_island     |-> [base_price |-> 150000, scaling_factor |-> 18],
      bar_stools         |-> [base_price |-> 30000,  scaling_factor |-> 20],
      pendant_lights     |-> [base_price |-> 25000,  scaling_factor |-> 25],
      kitchen_appliances |-> [base_price |-> 120000, scaling_factor |-> 18],
      hob                |-> [base_price |-> 50000,  scaling_factor |-> 20],
      sink               |-> [base_price |-> 40000,  scaling_factor |-> 25],
      chimney            |-> [base_price |-> 60000,  scaling_factor |-> 20],
      lighting           |-> [base_price |-> 40000,  scaling_factor |-> 18],
      countertop         |-> [base_price |-> 80000,  scaling_factor |-> 22],
      vanity_cabinet     |-> [base_price |-> 100000, scaling_factor |-> 18],
      double_vanity      |-> [base_price |-> 200000, scaling_factor |-> 16],
      mirror             |-> [base_price |-> 40000,  scaling_factor |-> 20],
      luxury_mirror      |-> [base_price |-> 80000,  scaling_factor |-> 18],
      shower_fixtures    |-> [base_price |-> 80000,  scaling_factor |-> 20],
      premium_fixtures   |-> [base_price |-> 150000, scaling_factor |-> 18],
      bathroom_lighting  |-> [base_price |-> 20000,  scaling_factor |-> 25],
      luxury_lighting    |-> [base_price |-> 40000,  scaling_factor |-> 20],
      storage_shelves    |-> [base_price |-> 30000,  scaling_factor |-> 18],
      towel_warmer       |-> [base_price |-> 40000,  scaling_factor |-> 20] ]

\* One dict entry of a product_slots list.
SlotDict(name, category, quantity, budget_percentage) ==
    [isdict |-> TRUE,
     d |-> [name |-> name, category |-> category, quantity |-> quantity,
            budget_percentage |-> budget_percentage]]

\* The four templates _initialize_templates keeps in the LayoutTemplate table
\* (ids 1..4 in creation order), followed by templates stored by other means
\* (the admin site): product_slots is a JSONField and takes any JSON value.
LayoutTemplates ==
    << [id |-> 1, name |-> "Modern Kitchen", room_type |-> "kitchen", style |-> "modern",
        dimensions |-> [width |-> 12, height |-> 10, area_sqft |-> 120],
        color_palette |-> <<"#FFFFFF", "#2C3E50", "#3498DB", "#ECF0F1">>,
        product_slots |-> [kind |-> "list", items |-> <<
            SlotDict("kitchen_cabinet", "Storage", 1, 40),
            SlotDict("kitchen_island", "Storage", 1, 25),
            SlotDict("bar_stools", "Seating", 3, 15),
            SlotDict("pendant_lights", "Lighting", 3, 12),
            SlotDict("kitchen_appliances", "Appliances", 1, 8) >>]],
       [id |-> 2, name |-> "Traditional Kitchen", room_type |-> "kitchen", style |-> "traditional",
        dimensions |-> [width |-> 14, height |-> 11, area_sqft |-> 154],
        color_palette |-> <<"#8B4513", "#F5DEB3", "#CD853F", "#FFFFFF">>,
        product_slots |-> [kind |-> "list", items |-> <<
            SlotDict("wooden_cabinets", "Storage", 1, 45),
            SlotDict("dining_table", "Tables", 1, 20),
            SlotDict("dining_chairs", "Seating", 4, 15),
            SlotDict("chandelier", "Lighting", 1, 12),
            SlotDict("kitchen_appliances", "Appliances", 1, 8) >>]],
       [id |-> 3, name |-> "Modern Bathroom", room_type |-> "bathroom", style |-> "modern",
        dimensions |-> [width |-> 8, height |-> 6, area_sqft |-> 48],
        color_palette |-> <<"#FFFFFF", "#E8E8E8", "#4A90E2", "#2C3E50">>,
        product_slots |-> [kind |-> "list", items |-> <<
            SlotDict("vanity_cabinet", "Storage", 1, 35),
            SlotDict("mirror", "Accessories", 1, 15),
            SlotDict("shower_fixtures", "Fixtures", 1, 25),
            SlotDict("bathroom_lighting", "Lighting", 2, 15),
            SlotDict("storage_shelves", "Storage", 2, 10) >>]],
       [id |-> 4, name |-> "Luxury Bathroom", room_type |-> "bathroom", style |-> "luxury",
        dimensions |-> [width |-> 10, height |-> 8, area_sqft |-> 80],
        color_palette |-> <<"#F8F8FF", "#DAA520", "#2F4F4F", "#FFFFFF">>,
        product_slots |-> [kind |-> "list", items |-> <<
            SlotDict("double_vanity", "Storage", 1, 30),
            SlotDict("luxury_mirror", "Accessories", 1, 12),
            SlotDict("premium_fixtures", "Fixtures", 1, 35),
            SlotDict("luxury_lighting", "Lighting", 3, 15),
            SlotDict("towel_warmer", "Accessories", 1, 8) >>]],
       \* weights that sum to 60, slot names unknown to premium_products
       [id |-> 5, name |-> "Pantry Nook", room_type |-> "kitchen", style |-> "rustic",
        dimensions |-> [width |-> 6, height |-> 5, area_sqft |-> 30],
        color_palette |-> <<>>,
        product_slots |-> [kind |-> "list", items |-> <<
            SlotDict("wine_rack", "Storage", 1, 36),
            SlotDict("bench_seat", "Seating", 2, 24) >>]],
       \* every weight 0
       [id |-> 6, name |-> "Bare Room", room_type |-> "kitchen", style |-> "minimalist",
        dimensions |-> [width |-> 9, height |-> 9, area_sqft |-> 81],
        color_palette |-> <<>>,
        product_slots |-> [kind |-> "list", items |-> <<
            SlotDict("hob", "Appliances", 1, 0),
            SlotDict("wall_art", "Accessories", 1, 0) >>]],
       \* no slots
       [id |-> 7, name |-> "Empty Room", room_type |-> "bathroom", style |-> "minimalist",
        dimensions |-> [width |-> 5, height |-> 5, area_sqft |-> 25],
        color_palette |-> <<>>,
        product_slots |-> [kind |-> "list", items |-> << >>]],
       \* neither a list nor a dict
       [id |-> 8, name |-> "Broken", room_type |-> "bathroom", style |-> "industrial",
        dimensions |-> [width |-> 5, height |-> 4, area_sqft |-> 20],
        color_palette |-> <<>>,
        product_slots |-> [kind |-> "string", items |-> << >>]],
       \* a dict keyed by slot name, its keys in the order the jsonb column
       \* returns them
       [id |-> 9, name |-> "Cook Station", room_type |-> "kitchen", style |-> "industrial",
        dimensions |-> [width |-> 7, height |-> 6, area_sqft |-> 42],
        color_palette |-> <<>>,
        product_slots |-> [kind |-> "dict", items |-> <<
            <<"hob", [category |-> "Appliances", quantity |-> 1, budget_percentage |-> 50]>>,
            <<"sink", [category |-> "Fixtures", quantity |-> 1, budget_percentage |-> 50]>> >>]],
       \* a zero weight beside positive ones, a slot without budget_percentage,
       \* a slot without a name, a duplicate name and an entry that is not a dict
       [id |-> 10, name |-> "Mixed", room_type |-> "kitchen", style |-> "contemporary",
        dimensions |-> [width |-> 11, height |-> 9, area_sqft |-> 99],
        color_palette |-> <<>>,
        product_slots |-> [kind |-> "list", items |-> <<
            SlotDict("countertop", "Surfaces", 1, 0),
            [isdict |-> TRUE, d |-> [name |-> "chimney", category |-> "Appliances",
                                     quantity |-> 1]],
            [isdict |-> TRUE, d |-> [category |-> "Lighting", quantity |-> 2,
                                     budget_percentage |-> 30]],
            SlotDict("chimney", "Appliances", 1, 50),
            [isdict |-> FALSE, v |-> "plant"] >>]],
       \* a slot whose category has no keyword of the category filter
       [id |-> 11, name |-> "Fitted Kitchen", room_type |-> "kitchen", style |-> "scandinavian",
        dimensions |-> [width |-> 10, height |-> 9, area_sqft |-> 90],
        color_palette |-> <<>>,
        product_slots |-> [kind |-> "list", items |-> <<
            SlotDict("installation", "Services", 1, 30),
            SlotDict("kitchen_cabinet", "Storage", 1, 70) >>]] >>


\* Case-insensitive substring tests of the source ('storage' in category_keywords,
\* category__name__iregex, 'cabinet' in slot_name): for every text of the model,
\* the keywords of the source that occur in it.
KeywordsIn ==
    [t \in {"Storage", "Seating", "Tables", "Lighting", "Fixtures", "Appliances",
            "Accessories", "Surfaces", "",
            "Kitchen Cabinets", "Bar Stools", "Pendant Lighting", "Home Decor",
            "Labor & Installation", "Services", "installation",
            "kitchen_cabinet", "kitchen_island", "bar_stools", "pendant_lights",
            "kitchen_appliances", "wooden_cabinets", "dining_table", "dining_chairs",
            "chandelier", "vanity_cabinet", "mirror", "shower_fixtures",
            "bathroom_lighting", "storage_shelves", "double_vanity", "luxury_mirror",
            "premium_fixtures", "luxury_lighting", "towel_warmer", "wine_rack",
            "bench_seat", "hob", "wall_art", "sink", "countertop", "chimney",
            "slot_0", "slot_1", "slot_2", "slot_3", "slot_4", "slot_5"} |->
        CASE t = "Storage"            -> {"storage"}
          [] t = "Seating"            -> {"seating"}
          [] t = "Tables"             -> {"table"}
          [] t = "Lighting"           -> {"lighting", "light"}
          [] t = "Fixtures"           -> {"fixtures", "fixture"}
          [] t = "Appliances"         -> {"appliances", "appliance"}
          [] t = "Accessories"        -> {"accessories"}
          [] t = "Surfaces"           -> {"surface"}
          [] t = "Kitchen Cabinets"   -> {"cabinet"}
          [] t = "Bar Stools"         -> {"stool"}
          [] t = "Pendant Lighting"   -> {"pendant", "light", "lighting"}
          [] t = "kitchen_cabinet"    -> {"cabinet"}
          [] t = "bar_stools"         -> {"stool"}
          [] t = "pendant_lights"     -> {"pendant", "light"}
          [] t = "kitchen_appliances" -> {"appliance", "appliances"}
          [] t = "wooden_cabinets"    -> {"cabinet"}
          [] t = "dining_table"       -> {"table"}
          [] t = "dining_chairs"      -> {"chair"}
          [] t = "chandelier"         -> {"chandelier"}
          [] t = "vanity_cabinet"     -> {"vanity", "cabinet"}
          [] t = "mirror"             -> {"mirror"}
          [] t = "shower_fixtures"    -> {"shower", "fixture", "fixtures"}
          [] t = "bathroom_lighting"  -> {"light", "lighting"}
          [] t = "storage_shelves"    -> {"storage"}
          [] t = "double_vanity"      -> {"vanity"}
          [] t = "luxury_mirror"      -> {"mirror"}
          [] t = "premium_fixtures"   -> {"fixture", "fixtures"}
          [] t = "luxury_lighting"    -> {"light", "lighting"}
          [] t = "towel_warmer"       -> {"towel"}
          [] t = "hob"                -> {"hob"}
          [] t = "countertop"         -> {"countertop"}
          [] t = "chimney"            -> {"chimney"}
          [] OTHER                    -> {}]

\* keyword in text.lower()
Contains(text, keyword) == keyword \in KeywordsIn[text]

\* re.search('(a|b|c)', text, IGNORECASE) for a set of alternatives
IRegex(text, alternatives) == KeywordsIn[text] \cap alternatives # {}

\* f'slot_{i}' for the index i of enumerate()
SlotIndexName(i) == <<"slot_0", "slot_1", "slot_2", "slot_3", "slot_4", "slot_5">>[i + 1]

(***************************************************************************)
(* The product catalog (products.models.Product rows, in primary-key       *)
(* order).  price is a DecimalField with two places, held here in cents.   *)
(***************************************************************************)
ProductPool ==
    << [id |-> 1, name |-> "Gloss Cabinet Set", category |-> "Kitchen Cabinets",
        style |-> "modern", room_type |-> "kitchen", material |-> "laminate",
        price |-> 250000, is_available |-> TRUE],
       [id |-> 2, name |-> "Oak Cabinet Set", category |-> "Kitchen Cabinets",
        style |-> "traditional", room_type |-> "kitchen", material |-> "oak",
        price |-> 120000, is_available |-> TRUE],
       [id |-> 3, name |-> "Steel Bar Stool", category |-> "Bar Stools",
        style |-> "modern", room_type |-> "kitchen", material |-> "steel",
        price |-> 14999, is_available |-> TRUE],
       [id |-> 4, name |-> "Globe Pendant", category |-> "Pendant Lighting",
        style |-> "industrial", room_type |-> "living_room", material |-> "glass",
        price |-> 9950, is_available |-> TRUE],
       [id |-> 5, name |-> "Retired Pendant", category |-> "Pendant Lighting",
        style |-> "modern", room_type |-> "kitchen", material |-> "brass",
        price |-> 8000, is_available |-> FALSE],
       [id |-> 6, name |-> "Wall Print", category |-> "Home Decor",
        style |-> "rustic", room_type |-> "living_room", material |-> "paper",
        price |-> 4500, is_available |-> TRUE],
       [id |-> 7, name |-> "Worktop Fitting", category |-> "Labor & Installation",
        style |-> "modern", room_type |-> "kitchen", material |-> "none",
        price |-> 60000, is_available |-> TRUE] >>

\* Product.objects.get(id=...)
ProductById(catalog, id) ==
    LET i == CHOOSE j \in 1..Len(catalog) : catalog[j].id = id IN catalog[i]


(***************************************************************************)
(* generate_design_recommendation: helpers.                                *)
(***************************************************************************)

\* d[k] = v on a python dict: an existing key keeps its position
RECURSIVE DictSet(_, _, _)
DictSet(d, k, v) ==
    IF d = <<>> THEN << <<k, v>> >>
    ELSE IF Head(d)[1] = k THEN << <<k, v>> >> \o Tail(d)
    ELSE << Head(d) >> \o DictSet(Tail(d), k, v)

\* A loop that names every slot by its index
RECURSIVE IndexNamedSlots(_, _)
IndexNamedSlots(items, n) ==
    IF n = 0 THEN <<>>
    ELSE DictSet(IndexNamedSlots(items, n - 1), SlotIndexName(n - 1),
                 IF items[n].isdict THEN items[n].d ELSE [type |-> items[n].v, quantity |-> 1])

\* The loop of lines 172-178 over template.product_slots[1..n], a list
RECURSIVE SlotsFromList(_, _)
SlotsFromList(items, n) ==
    IF n = 0 THEN <<>>
    ELSE LET slot == items[n]
             i    == n - 1
             rest == SlotsFromList(items, n - 1)
         IN  IF slot.isdict
             THEN DictSet(rest, Get(slot.d, "name", SlotIndexName(i)), slot.d)
             ELSE DictSet(rest, SlotIndexName(i), [type |-> slot.v, quantity |-> 1])

\* product_slots_dict of lines 170-182; ok is FALSE on 'Invalid product_slots format'
NormalizeProductSlots(product_slots) ==
    IF product_slots.kind = "list"
    THEN [ok |-> TRUE, dict |-> SlotsFromList(product_slots.items, Len(product_slots.items))]
    ELSE IF product_slots.kind = "dict"
    THEN [ok |-> TRUE, dict |-> product_slots.items]
    ELSE [ok |-> FALSE, dict |-> <<>>]

\* LayoutTemplate.objects.filter(...).first(): the lowest id that matches, 0 if none
FirstTemplate(room_types, styles) ==
    LET hits == {i \in 1..Len(LayoutTemplates) :
                    /\ LayoutTemplates[i].room_type \in room_types
                    /\ LayoutTemplates[i].style \in styles}
    IN  IF hits = {} THEN 0 ELSE CHOOSE i \in hits : \A j \in hits : i <= j

AllStyles == {LayoutTemplates[i].style : i \in 1..Len(LayoutTemplates)}

\* _select_template
SelectTemplate(preferences) ==
    LET rt0        == Get(preferences, "room_type", "kitchen")
        style      == Get(preferences, "style", "modern")
        room_type  == IF rt0 \notin {"kitchen", "bathroom"} THEN "kitchen" ELSE rt0
        exact      == FirstTemplate({room_type}, {style})
        by_room    == FirstTemplate({room_type}, AllStyles)
        kitchen    == FirstTemplate({"kitchen"}, AllStyles)
    IN  IF exact # 0 THEN exact ELSE IF by_room # 0 THEN by_room ELSE kitchen

\* LayoutTemplate.objects.get(id=layout_template_id): 0 on DoesNotExist
TemplateById(id) ==
    IF \E i \in 1..Len(LayoutTemplates) : LayoutTemplates[i].id = id
    THEN CHOOSE i \in 1..Len(LayoutTemplates) : LayoutTemplates[i].id = id
    ELSE 0

\* A split that gives materials four fifths of the budget
FourFifthsBudget(total_budget) == total_budget * 80

\* material_budget = total_budget * 0.85, in cents for total_budget in dollars
MaterialBudget(total_budget) == total_budget * 85

\* labor_cost = total_budget * 0.15, in cents for total_budget in dollars
LaborCost(total_budget) == total_budget * 15

\* A handler that lets the exception e leave the call
PropagateException(e) == [raised |-> e]

\* The except clause of generate_design_recommendation (lines 248-252); the
\* message is 'Design generation failed: ' followed by str(e)
OnException(e) == [error |-> <<"Design generation failed", e>>]

\* An early return {'error': ...}
ErrorResult(message) == [error |-> <<message>>]

(***************************************************************************)
(* _generate_optimized_products: slot budgets (lines 257-266).             *)
(* A slot budget is the exact fraction n / d of a cent.                     *)
(***************************************************************************)
BudgetPercentage(slot_info) == Get(slot_info, "budget_percentage", 10)

TotalPercentage(product_slots_dict) ==
    SumSeq([i \in 1..Len(product_slots_dict) |-> BudgetPercentage(product_slots_dict[i][2])])

\* An allocation that takes every weight as a percentage of the whole
UnnormalizedSlotBudgets(product_slots_dict, material_budget) ==
    [raised |-> FALSE,
     budgets |-> [i \in 1..Len(product_slots_dict) |->
         [n |-> material_budget * BudgetPercentage(product_slots_dict[i][2]),
          d |-> 100]]]

\* raised: ZeroDivisionError of line 263
SlotBudgets(product_slots_dict, material_budget) ==
    LET total_percentage == TotalPercentage(product_slots_dict)
    IN  IF total_percentage # 100
        THEN IF total_percentage = 0 /\ product_slots_dict # <<>>
             THEN [raised |-> TRUE, budgets |-> <<>>]
             ELSE [raised |-> FALSE,
                   budgets |-> [i \in 1..Len(product_slots_dict) |->
                       [n |-> material_budget * BudgetPercentage(product_slots_dict[i][2]),
                        d |-> total_percentage]]]
        ELSE [raised |-> FALSE,
              budgets |-> [i \in 1..Len(product_slots_dict) |->
                  [n |-> material_budget * BudgetPercentage(product_slots_dict[i][2]),
                   d |-> 100]]]


(***************************************************************************)
(* _ai_select_best_product and _recommend_products_for_slot.               *)
(* max_unit_price = slot_budget / quantity is the fraction n / (d * q).    *)
(***************************************************************************)
Quantity(slot_info) == Get(slot_info, "quantity", 1)

\* The price band of lines 920-925 for price_ratio = num / den (den > 0)
PriceBandScore(num, den) ==
    IF 7 * den <= 10 * num /\ 10 * num <= 12 * den THEN 5
    ELSE IF 5 * den <= 10 * num /\ 10 * num <= 7 * den THEN 3
    ELSE IF 10 * num > 12 * den THEN 2
    ELSE 0

\* A scorer whose division of line 919 yields a number
ScoreByRubric(product, preferences, slot_budget, quantity) ==
    [raised |-> FALSE,
     score |-> (IF "style" \in DOMAIN preferences /\ preferences.style = product.style
                THEN 5 ELSE 0)
             + (IF "room_type" \in DOMAIN preferences
                   /\ preferences.room_type = product.room_type THEN 3 ELSE 0)
             + (IF slot_budget.n > 0
                THEN PriceBandScore(product.price * slot_budget.d * quantity, slot_budget.n)
                ELSE PriceBandScore(0, 1))
             + (IF product.is_available THEN 2 ELSE 0)]

\* One iteration of the loop of lines 907-935.  product.price is a Decimal
\* and max_unit_price a float: when max_unit_price > 0 line 919 divides one
\* by the other, which raises TypeError; otherwise price_ratio is 0.
\* Product has no rating attribute, so lines 932-933 add nothing.
ScoreProduct(product, preferences, slot_budget, quantity) ==
    IF slot_budget.n > 0
    THEN [raised |-> TRUE, score |-> 0]
    ELSE [raised |-> FALSE,
          score |-> (IF "style" \in DOMAIN preferences /\ preferences.style = product.style
                     THEN 5 ELSE 0)
                  + (IF "room_type" \in DOMAIN preferences
                        /\ preferences.room_type = product.room_type THEN 3 ELSE 0)
                  + PriceBandScore(0, 1)
                  + (IF product.is_available THEN 2 ELSE 0)]

\* Lines 937-939 on the scored candidates: sort(reverse=True) is stable, so
\* the first candidate with the highest score is returned; raised when the
\* scoring of some candidate raised.
BestScored(products, scored) ==
    IF \E i \in 1..Len(scored) : scored[i].raised
    THEN [raised |-> TRUE, product |-> 0]
    ELSE [raised |-> FALSE,
          product |-> products[CHOOSE i \in 1..Len(scored) :
                          /\ \A j \in 1..Len(scored) : scored[j].score <= scored[i].score
                          /\ \A j \in 1..(i - 1) : scored[j].score < scored[i].score].id]

\* _ai_select_best_product over a non-empty candidate sequence: the id of the
\* chosen product; only the first ten candidates are scored.
AiSelectBestProduct(products, preferences, slot_budget, quantity) ==
    IF Len(products) = 1
    THEN [raised |-> FALSE, product |-> products[1].id]
    ELSE BestScored(products,
                    [i \in 1..Min(Len(products), 10) |->
                        ScoreProduct(products[i], preferences, slot_budget, quantity)])

\* products.filter(category__name__iregex=...)
CategoryRegex(rows, alternatives) ==
    LET Keep(p) == IRegex(p.category, alternatives) IN SelectSeq(rows, Keep)

\* The category filter of lines 739-767
CategoryFilter(rows, category) ==
    IF Contains(category, "storage")
    THEN CategoryRegex(rows, {"cabinet", "storage", "vanity", "shelf"})
    ELSE IF Contains(category, "seating")
    THEN CategoryRegex(rows, {"chair", "stool", "bench"})
    ELSE IF Contains(category, "table")
    THEN CategoryRegex(rows, {"table", "island"})
    ELSE IF Contains(category, "lighting")
    THEN CategoryRegex(rows, {"light", "lamp", "chandelier", "pendant"})
    ELSE IF Contains(category, "fixtures")
    THEN CategoryRegex(rows, {"fixture", "faucet", "shower", "tap"})
    ELSE IF Contains(category, "appliances")
    THEN CategoryRegex(rows, {"appliance", "refrigerator", "stove", "dishwasher"})
    ELSE IF Contains(category, "accessories")
    THEN CategoryRegex(rows, {"mirror", "accessory", "towel", "hardware"})
    ELSE rows

\* Product.objects.filter(is_available=True) (line 736)
AvailableOnly(rows) ==
    LET Keep(p) == p.is_available IN SelectSeq(rows, Keep)

\* price <= max_unit_price * 1.5 (line 771), i.e. price * d * q * 2 <= 3 * n
WithinPriceTolerance(price, slot_budget, quantity) ==
    price * slot_budget.d * quantity * 2 <= 3 * slot_budget.n

PriceFilter(rows, slot_budget, quantity) ==
    LET Keep(p) == WithinPriceTolerance(p.price, slot_budget, quantity)
    IN  SelectSeq(rows, Keep)

\* Lines 774-775: the style filter applies only when it leaves a product
StyleFilter(rows, preferences) ==
    LET Keep(p) == p.style = preferences.style
    IN  IF "style" \in DOMAIN preferences /\ SelectSeq(rows, Keep) # <<>>
        THEN SelectSeq(rows, Keep) ELSE rows

\* Lines 777-778: the same for the room type
RoomTypeFilter(rows, preferences) ==
    LET Keep(p) == p.room_type = preferences.room_type
    IN  IF "room_type" \in DOMAIN preferences /\ SelectSeq(rows, Keep) # <<>>
        THEN SelectSeq(rows, Keep) ELSE rows

\* The candidates handed to the scorer (lines 736-778)
SlotCandidates(catalog, slot_info, preferences, slot_budget) ==
    RoomTypeFilter(
        StyleFilter(
            PriceFilter(CategoryFilter(AvailableOnly(catalog), Get(slot_info, "category", "")),
                        slot_budget, Quantity(slot_info)),
            preferences),
        preferences)

\* Lines 784-794 on the candidates: the selected_products list (ids), empty
\* when there is no candidate or when the scorer raises (lines 796-798)
SelectedProducts(chosen) == IF chosen.raised THEN <<>> ELSE <<chosen.product>>

SelectAmong(products, preferences, slot_budget, quantity) ==
    IF products = <<>> THEN <<>>
    ELSE SelectedProducts(AiSelectBestProduct(products, preferences, slot_budget, quantity))

\* _recommend_products_for_slot
RecommendProductsForSlot(catalog, slot_info, preferences, slot_budget) ==
    SelectAmong(SlotCandidates(catalog, slot_info, preferences, slot_budget),
                preferences, slot_budget, Quantity(slot_info))

(***************************************************************************)
(* _create_budget_maximizing_product (lines 457-489), for quantity >= 1.   *)
(* target_unit_price = slot_budget * 0.92 / quantity = 92 n / (100 d q).   *)
(***************************************************************************)
\* A price rule with the cap but without the floor of 70% of the base price
UnflooredUnitPrice(slot_name, target) ==
    IF slot_name \notin DOMAIN premium_products THEN -1
    ELSE LET base_price == premium_products[slot_name].base_price
             cap   == (base_price * premium_products[slot_name].scaling_factor) \div 10
         IN  IF target[1] > cap \/ (target[1] = cap /\ target[2] > 0)
             THEN cap ELSE -1

\* A price rule with the floor but without the cap of base_price x scaling_factor
UncappedUnitPrice(slot_name, target) ==
    IF slot_name \notin DOMAIN premium_products THEN -1
    ELSE LET floor == (premium_products[slot_name].base_price * 7) \div 10
         IN  IF target[1] < floor THEN floor ELSE -1

\* Lines 464-478 for target_unit_price = target[1] + target[2] / den cents: the
\* unit price when it is a fixed number of cents, -1 when it is
\* target_unit_price itself
FixedUnitPrice(slot_name, target) ==
    IF slot_name \notin DOMAIN premium_products THEN -1
    ELSE LET base_price == premium_products[slot_name].base_price
             cap   == (base_price * premium_products[slot_name].scaling_factor) \div 10
             floor == (base_price * 7) \div 10
         IN  IF target[1] > base_price \/ (target[1] = base_price /\ target[2] > 0)
             THEN (IF target[1] > cap \/ (target[1] = cap /\ target[2] > 0)
                   THEN cap ELSE -1)
             ELSE (IF target[1] < floor THEN floor ELSE -1)

\* Lines 481-489: the rounded prices
PricedProduct(quantity, slot_budget, target, den, fixed) ==
    [quantity |-> quantity,
     unit_price |-> IF fixed = -1 THEN RoundHalfEven(target[1], target[2], den) ELSE fixed,
     total_price |-> IF fixed = -1
                     THEN MulDivRound(slot_budget.n, 92, slot_budget.d * 100)
                     ELSE fixed * quantity,
     reasoning |-> <<"premium materials">>]

TargetPricedProduct(slot_name, quantity, slot_budget, target, den) ==
    PricedProduct(quantity, slot_budget, target, den, FixedUnitPrice(slot_name, target))

CreateBudgetMaximizingProduct(slot_name, slot_info, slot_budget) ==
    TargetPricedProduct(slot_name, Quantity(slot_info), slot_budget,
                        MulDivQR(slot_budget.n, 92,
                                 slot_budget.d * 100 * Quantity(slot_info)),
                        slot_budget.d * 100 * Quantity(slot_info))

(***************************************************************************)
(* The first pass of _generate_optimized_products, one slot (lines 271-327)*)
(***************************************************************************)

\* total_price <= slot_budget * 1.5 (line 294)
AcceptedTotal(total_price, slot_budget) ==
    total_price * slot_budget.d * 2 <= 3 * slot_budget.n

\* Lines 295-303: the ProductRecommendation of a catalog product
RealRecommendation(design, product, quantity, slot_name) ==
    [design |-> design, product |-> product.id, quantity |-> quantity,
     slot_name |-> slot_name, reasoning |-> <<"selected">>,
     unit_price |-> product.price, total_price |-> product.price * quantity]

\* Lines 286-309 on the recommended ids: the ProductRecommendation of the
\* first one that passes line 294, as a sequence of length 0 or 1
FirstAccepted(fitting, design, catalog, quantity, slot_name) ==
    IF fitting = <<>> THEN <<>>
    ELSE << RealRecommendation(design, ProductById(catalog, fitting[1]), quantity,
                               slot_name) >>

AcceptedAmong(products, catalog, quantity, slot_budget) ==
    LET Fits(id) == AcceptedTotal(ProductById(catalog, id).price * quantity, slot_budget)
    IN  SelectSeq(products, Fits)

RealSelection(design, catalog, preferences, slot_name, slot_info, slot_budget) ==
    FirstAccepted(
        AcceptedAmong(RecommendProductsForSlot(catalog, slot_info, preferences, slot_budget),
                      catalog, Quantity(slot_info), slot_budget),
        design, catalog, Quantity(slot_info), slot_name)

\* A synthesized ProductRecommendation that carries no reasoning text
UnreasonedRecommendation(design, slot_name, ai_product) ==
    [design |-> design, product |-> 0, quantity |-> ai_product.quantity,
     slot_name |-> slot_name, reasoning |-> <<>>,
     unit_price |-> ai_product.unit_price, total_price |-> ai_product.total_price]

\* The ProductRecommendation of lines 317-325 (product=None is 0)
SynthesizedRecommendation(design, slot_name, ai_product) ==
    [design |-> design, product |-> 0, quantity |-> ai_product.quantity,
     slot_name |-> slot_name, reasoning |-> ai_product.reasoning,
     unit_price |-> ai_product.unit_price, total_price |-> ai_product.total_price]

\* Lines 312-327
SynthesizedSelection(design, slot_name, slot_info, slot_budget) ==
    SynthesizedRecommendation(design, slot_name,
        CreateBudgetMaximizingProduct(slot_name, slot_info, slot_budget))

\* A loop body that synthesizes the slot whatever the catalog offers
SynthesizeEverySlot(recs, real, design, slot_name, slot_info, slot_budget) ==
    Append(recs, SynthesizedSelection(design, slot_name, slot_info, slot_budget))

\* Lines 283-327 once the real selection is known
WithSelection(recs, real, design, slot_name, slot_info, slot_budget) ==
    IF real # <<>> THEN recs \o real
    ELSE Append(recs, SynthesizedSelection(design, slot_name, slot_info, slot_budget))

\* product_recommendations after the loop body for one slot
SkipUnmatchedSlot(recs, design, catalog, preferences, slot_name, slot_info, slot_budget) ==
    recs \o RealSelection(design, catalog, preferences, slot_name, slot_info, slot_budget)

FirstPassSlot(recs, design, catalog, preferences, slot_name, slot_info, slot_budget) ==
    WithSelection(recs,
        RealSelection(design, catalog, preferences, slot_name, slot_info, slot_budget),
        design, slot_name, slot_info, slot_budget)

(***************************************************************************)
(* The second pass (lines 329-338, 491-526).                               *)
(***************************************************************************)
TotalPrice(recs) == SumSeq([i \in 1..Len(recs) |-> recs[i].total_price])

\* remaining_budget > material_budget * 0.05 (line 333)
NeedsRedistribution(material_budget, total_allocated) ==
    (material_budget - total_allocated) * 100 > material_budget * 5

\* total_allocated > material_budget * 1.02 (line 337)
NeedsScaleDown(material_budget, total_allocated) ==
    total_allocated * 100 > material_budget * 102

\* Lines 500-509 for one selection, with upgrade_amount = up[1] + up[2] / c:
\* new_unit_price = unit_price + upgrade_amount / quantity and
\* new_total_price = new_unit_price * quantity, each rounded
Upgraded(prod_rec, up, c) ==
    [prod_rec EXCEPT
        !.unit_price  = RoundHalfEven(prod_rec.unit_price + (up[1] \div prod_rec.quantity),
                                      (up[1] % prod_rec.quantity) * c + up[2],
                                      prod_rec.quantity * c),
        !.total_price = RoundHalfEven(prod_rec.unit_price * prod_rec.quantity + up[1],
                                      up[2], c),
        !.reasoning   = Append(@, "enhanced")]

Upgrade(prod_rec, remaining_budget, total_current_cost) ==
    IF total_current_cost > 0
    THEN Upgraded(prod_rec,
                  MulDivQR(remaining_budget, prod_rec.total_price, total_current_cost),
                  total_current_cost)
    ELSE Upgraded(prod_rec, <<0, 0>>, 1)

UpgradeAll(recs, remaining_budget, total_current_cost) ==
    [i \in 1..Len(recs) |-> Upgrade(recs[i], remaining_budget, total_current_cost)]

\* _redistribute_remaining_budget
RedistributeRemainingBudget(recs, remaining_budget) ==
    IF recs = <<>> \/ remaining_budget <= 0 THEN recs
    ELSE UpgradeAll(recs, remaining_budget, TotalPrice(recs))

\* A scaling by (target_budget - total_current_cost) / total_current_cost, the
\* relative distance to the target, which is negative when over budget
ScaledByDistance(prod_rec, target_budget, total_current_cost) ==
    IF total_current_cost > target_budget
    THEN [prod_rec EXCEPT
            !.unit_price  = 0 - MulDivRound(prod_rec.total_price,
                                            total_current_cost - target_budget,
                                            total_current_cost * prod_rec.quantity),
            !.total_price = 0 - MulDivRound(prod_rec.total_price,
                                            total_current_cost - target_budget,
                                            total_current_cost)]
    ELSE prod_rec

\* A scaling of the unit price that leaves total_price as it was
ScaledUnitOnly(prod_rec, target_budget, total_current_cost) ==
    IF total_current_cost > 0
    THEN [prod_rec EXCEPT
            !.unit_price  = MulDivRound(prod_rec.total_price, target_budget,
                                        total_current_cost * prod_rec.quantity)]
    ELSE prod_rec

\* Lines 521-525 for one selection, scale_factor = target_budget / total_current_cost
\* (1 when total_current_cost is 0)
Scaled(prod_rec, target_budget, total_current_cost) ==
    IF total_current_cost > 0
    THEN [prod_rec EXCEPT
            !.unit_price  = MulDivRound(prod_rec.total_price, target_budget,
                                        total_current_cost * prod_rec.quantity),
            !.total_price = MulDivRound(prod_rec.total_price, target_budget,
                                        total_current_cost)]
    ELSE [prod_rec EXCEPT
            !.unit_price  = MulDivRound(prod_rec.total_price, 1, prod_rec.quantity)]

ScaleAll(recs, target_budget, total_current_cost) ==
    [i \in 1..Len(recs) |-> Scaled(recs[i], target_budget, total_current_cost)]

\* _scale_down_to_budget
SkipScaleDown(recs, target_budget) == recs

ScaleDownToBudget(recs, target_budget) ==
    IF recs = <<>> THEN recs
    ELSE ScaleAll(recs, target_budget, TotalPrice(recs))

(***************************************************************************)
(* _generate_enhanced_cost_breakdown (lines 670-731).                      *)
(***************************************************************************)
DictHas(d, k) == \E i \in 1..Len(d) : d[i][1] = k

DictGet(d, k) == d[CHOOSE i \in 1..Len(d) : d[i][1] = k][2]

\* The category a selection is grouped under (lines 677-695)
BreakdownCategory(prod_rec, catalog) ==
    IF prod_rec.product # 0 THEN ProductById(catalog, prod_rec.product).category
    ELSE LET slot_name == prod_rec.slot_name
         IN  IF Contains(slot_name, "cabinet") \/ Contains(slot_name, "storage")
                \/ Contains(slot_name, "vanity") THEN "Storage & Cabinetry"
             ELSE IF Contains(slot_name, "light") \/ Contains(slot_name, "chandelier")
                  THEN "Lighting"
             ELSE IF Contains(slot_name, "fixture") \/ Contains(slot_name, "shower")
                     \/ Contains(slot_name, "faucet") THEN "Fixtures"
             ELSE IF Contains(slot_name, "appliance") \/ Contains(slot_name, "hob")
                     \/ Contains(slot_name, "chimney") THEN "Appliances"
             ELSE IF Contains(slot_name, "stool") \/ Contains(slot_name, "chair")
                  THEN "Seating"
             ELSE IF Contains(slot_name, "countertop") \/ Contains(slot_name, "surface")
                  THEN "Surfaces"
             ELSE "Accessories"

\* Lines 697-710: the breakdown with one more item under category_name
WithItem(breakdown, category_name, old, prod_rec) ==
    DictSet(breakdown, category_name,
            [items |-> Append(old.items,
                              [slot_name |-> prod_rec.slot_name, product |-> prod_rec.product,
                               quantity |-> prod_rec.quantity,
                               unit_price |-> prod_rec.unit_price,
                               total_price |-> prod_rec.total_price]),
             subtotal |-> old.subtotal + prod_rec.total_price])

AddToCategory(breakdown, category_name, prod_rec) ==
    WithItem(breakdown, category_name,
             IF DictHas(breakdown, category_name) THEN DictGet(breakdown, category_name)
             ELSE [items |-> <<>>, subtotal |-> 0],
             prod_rec)

\* breakdown after the first n selections (the loop of lines 676-711)
RECURSIVE GroupByCategory(_, _, _)
GroupByCategory(recs, n, catalog) ==
    IF n = 0 THEN <<>>
    ELSE AddToCategory(GroupByCategory(recs, n - 1, catalog),
                       BreakdownCategory(recs[n], catalog), recs[n])

GenerateEnhancedCostBreakdown(recs, labor_cost, catalog) ==
    [categories |->
        DictSet(GroupByCategory(recs, Len(recs), catalog), "Labor & Installation",
                [items |-> << [slot_name |-> "Professional Installation & Labor",
                               product |-> 0, quantity |-> 1,
                               unit_price |-> labor_cost, total_price |-> labor_cost] >>,
                 subtotal |-> labor_cost]),
     material_total |-> TotalPrice(recs),
     labor_total |-> labor_cost,
     grand_total |-> TotalPrice(recs) + labor_cost]

\* The keys of the dict returned on success (lines 229-246)
SuccessKeys ==
    {"design_id", "template", "room_type", "style", "dimensions", "material_cost",
     "labor_cost", "total_cost", "budget_used", "budget_utilization", "color_palette",
     "ai_reasoning", "product_count", "cost_breakdown", "design_features", "status"}

\* _generate_design_features (lines 817-838)
GenerateDesignFeatures(tpl) ==
    LET features ==
            IF tpl.room_type = "kitchen"
            THEN (IF tpl.style = "modern"
                  THEN <<"Clean contemporary lines", "Efficient workflow design",
                         "Smart storage solutions", "Modern appliance integration">>
                  ELSE IF tpl.style = "traditional"
                  THEN <<"Classic design elements", "Warm wood finishes", "Timeless appeal",
                         "Functional layout">>
                  ELSE <<>>)
                 \o <<"Optimal counter space", "Strategic lighting placement",
                      "Durable materials">>
            ELSE IF tpl.room_type = "bathroom"
            THEN (IF tpl.style = "modern"
                  THEN <<"Sleek minimalist design", "Water-efficient fixtures",
                         "Contemporary finishes", "Smart storage">>
                  ELSE IF tpl.style = "luxury"
                  THEN <<"Premium materials", "Spa-like atmosphere", "High-end fixtures",
                         "Elegant details">>
                  ELSE <<>>)
                 \o <<"Proper ventilation", "Easy maintenance", "Functional layout">>
            ELSE <<>>
    IN  SubSeq(features, 1, Min(Len(features), 6))

\* Lines 221-246 once the selections are known.  total_budget is in dollars,
\* the costs in cents; budget_utilization is in tenths of a percent.  Raises
\* ZeroDivisionError at line 239 when total_budget is 0.
ResultDict(design_id, tpl, total_budget, material_cost, labor_cost, reasoning, recs, catalog) ==
    [design_id |-> design_id, template |-> tpl.name, room_type |-> tpl.room_type,
     style |-> tpl.style, dimensions |-> tpl.dimensions,
     material_cost |-> material_cost, labor_cost |-> labor_cost,
     total_cost |-> material_cost + labor_cost, budget_used |-> total_budget,
     budget_utilization |-> MulDivRound(material_cost + labor_cost, 10, total_budget),
     color_palette |-> tpl.color_palette,
     ai_reasoning |-> reasoning, product_count |-> Len(recs),
     cost_breakdown |-> GenerateEnhancedCostBreakdown(recs, labor_cost, catalog),
     design_features |-> GenerateDesignFeatures(tpl),
     status |-> "success"]

SuccessResult(design_id, tpl, total_budget, labor_cost, reasoning, recs, catalog) ==
    ResultDict(design_id, tpl, total_budget, TotalPrice(recs), labor_cost, reasoning, recs,
               catalog)

(***************************************************************************)
(* Bounds and the inputs of one design request.                            *)
(***************************************************************************)
\* The catalog holds at most this many rows of ProductPool.
MaxCatalogSize == 2

NoPreferences == [k \in {} |-> ""]

PreferenceChoices ==
    { [room_type |-> "kitchen", style |-> "modern"],
      [room_type |-> "bathroom", style |-> "luxury"],
      NoPreferences }

\* UserSession rows: missing, inactive, expired, or usable with some preferences
SessionChoices ==
    { [exists |-> FALSE, is_active |-> FALSE, expired |-> FALSE, preferences |-> NoPreferences],
      [exists |-> TRUE,  is_active |-> FALSE, expired |-> FALSE, preferences |-> NoPreferences],
      [exists |-> TRUE,  is_active |-> TRUE,  expired |-> TRUE,  preferences |-> NoPreferences] }
    \cup { [exists |-> TRUE, is_active |-> TRUE, expired |-> FALSE, preferences |-> p] :
              p \in PreferenceChoices }

\* The budget argument: None, a value float() rejects, or a number of dollars
BudgetChoices ==
    { [kind |-> "none", value |-> 0], [kind |-> "text", value |-> 0] }
    \cup { [kind |-> "number", value |-> v] : v \in {0, 1200, 8000, 12000} }

\* layout_template_id: 0 for None, 99 for an id no row has
TemplateIdChoices == {0, 1, 2, 4, 5, 6, 7, 8, 9, 10, 11, 99}

CatalogChoices ==
    { SelectSeq(ProductPool, LAMBDA p : p.id \in ids) :
        ids \in {S \in SUBSET {ProductPool[i].id : i \in 1..Len(ProductPool)} :
                    Cardinality(S) <= MaxCatalogSize} }

(***************************************************************************)
(* State.                                                                  *)
(***************************************************************************)
VARIABLES
    pc,                       \* position in generate_design_recommendation
    session,                  \* the UserSession row
    budget,                   \* argument budget
    layout_template_id,       \* argument layout_template_id
    text_generation_ok,       \* whether the openai call of line 887 returns
    catalog,                  \* Product rows
    designs,                  \* DesignRecommendation rows
    suspended,                \* the locals of a second call that is not running now
    design,                   \* id of the DesignRecommendation row of this call
    template,                 \* index of the chosen template in LayoutTemplates
    product_slots_dict,
    total_budget,             \* dollars
    material_budget,          \* cents
    labor_cost,               \* cents
    ai_reasoning,
    slot_budgets,
    slot_index,               \* slots of product_slots_dict the first pass has done
    product_recommendations,
    total_allocated,
    result,                   \* the returned dict
    report,                   \* the cost lines of the PDF of generate_pdf_report
    chats,                    \* the ChatView.post requests being handled
    interactions,             \* number of ChatInteraction rows of the session
    request_count,            \* cache entry chat_rate_limit_<session_id>
    admitted,                 \* requests let through since that entry was last absent
    view_session,             \* the session GenerateDesignView.post has read
    created_at,               \* the INSERT whose time is created_at of the session row
    ages,                     \* per INSERT: 0 less than 24 hours ago, 1 more, 2 more than 7 days
    entry_before,             \* the INSERTs whose last mark of the clock the cache entry precedes
    cleanup                   \* SessionCleanupView.post: its position and its querysets

vars == <<pc, session, budget, layout_template_id, text_generation_ok, catalog, designs,
          suspended, design, template, product_slots_dict, total_budget, material_budget, labor_cost,
          ai_reasoning, slot_budgets, slot_index, product_recommendations, total_allocated,
          result, report, chats, interactions, request_count, admitted, view_session,
          created_at, ages, entry_before, cleanup>>

\* What the views read and write besides the session row and the design call
chat_state == <<chats, interactions, request_count, admitted, view_session, created_at,
                ages, entry_before, cleanup>>

inputs == <<budget, layout_template_id, text_generation_ok, catalog>>

locals == <<design, template, product_slots_dict, total_budget, material_budget, labor_cost,
            ai_reasoning>>

NoResult == [pending |-> TRUE]

\* No second call
NoCall == [pc |-> "absent"]

\* generate_pdf_report has not run
NoReport == [pending |-> TRUE]

\* The ChatView.post requests that can be in progress at once
ChatIds == {1, 2}

\* GenerateDesignView.post has read no session
NoCopy == [pending |-> TRUE]

\* No request in this place
IdleChat == [pc |-> "idle"]

\* No chat request yet: no ChatInteraction row and no rate limit entry in the
\* cache (cache.get(rate_limit_key, 0) reads 0)
NoChat ==
    /\ chats = [i \in ChatIds |-> IdleChat]
    /\ interactions = 0
    /\ request_count = 0
    /\ admitted = 0
    /\ view_session = NoCopy
    /\ created_at = IF session.exists THEN 1 ELSE 0
    /\ ages = <<IF session.expired THEN 1 ELSE 0>>
    /\ entry_before = {}
    /\ cleanup = [pc |-> "idle"]

Init ==
    /\ pc = "start"
    /\ session \in SessionChoices
    /\ budget \in BudgetChoices
    /\ layout_template_id \in TemplateIdChoices
    /\ text_generation_ok \in BOOLEAN
    /\ catalog \in CatalogChoices
    /\ designs = <<>>
    /\ suspended = NoCall
    /\ report = NoReport
    /\ NoChat
    /\ design = 0
    /\ template = 0
    /\ product_slots_dict = <<>>
    /\ total_budget = 0
    /\ material_budget = 0
    /\ labor_cost = 0
    /\ ai_reasoning = [kind |-> "none"]
    /\ slot_budgets = <<>>
    /\ slot_index = 0
    /\ product_recommendations = <<>>
    /\ total_allocated = 0
    /\ result = NoResult

\* return value: the call ends with `r`
Return(r) ==
    /\ pc' = "done"
    /\ result' = r

(***************************************************************************)
(* generate_design_recommendation, lines 125-214: validation, budget,      *)
(* template, slot normalisation and the DesignRecommendation row.          *)
(***************************************************************************)
DefaultBudget(preferences) ==
    IF Get(preferences, "room_type", "kitchen") = "kitchen" THEN 8000 ELSE 4500

\* A fallback paragraph that leaves the budget out
ReasoningWithoutBudget(ok, tpl, dollars) ==
    IF ok THEN [kind |-> "generated"]
    ELSE [kind |-> "fallback", template |-> tpl.name, style |-> tpl.style,
          room_type |-> tpl.room_type]

\* _generate_design_reasoning (lines 864-897): the text the openai call
\* returns, or, when anything in the try block raises, the static paragraph
\* of line 897 with the fields it interpolates
GenerateDesignReasoning(ok, tpl, dollars) ==
    IF ok THEN [kind |-> "generated"]
    ELSE [kind |-> "fallback", template |-> tpl.name, style |-> tpl.style,
          room_type |-> tpl.room_type, budget |-> dollars]

ChosenTemplate ==
    IF layout_template_id # 0 THEN TemplateById(layout_template_id)
    ELSE SelectTemplate(session.preferences)

RejectSession ==
    /\ pc = "start"
    /\ ~session.exists \/ ~session.is_active \/ session.expired
    /\ IF ~session.exists
       THEN /\ Return(ErrorResult("Session with ID does not exist in database"))
            /\ UNCHANGED session
       ELSE IF ~session.is_active
       THEN /\ Return(ErrorResult("Session is inactive"))
            /\ UNCHANGED session
       ELSE /\ session' = [session EXCEPT !.is_active = FALSE]
            /\ Return(ErrorResult("Session has expired"))
    /\ UNCHANGED <<inputs, suspended, report, chat_state, locals, designs, slot_budgets, slot_index,
                   product_recommendations, total_allocated>>

\* Lines 128-146 for a session that passes: the row is read under
\* select_for_update and found active and not expired
CheckSession ==
    /\ pc = "start"
    /\ session.exists /\ session.is_active /\ ~session.expired
    /\ pc' = "checked"
    /\ UNCHANGED <<session, inputs, suspended, report, chat_state, locals, designs, slot_budgets,
                   slot_index, product_recommendations, total_allocated, result>>

\* Lines 148-186: the early returns for the budget and the template
RejectRequest ==
    /\ pc = "checked"
    /\ \/ budget.kind = "text"
       \/ ChosenTemplate = 0
       \/ /\ ChosenTemplate # 0
          /\ ~NormalizeProductSlots(LayoutTemplates[ChosenTemplate].product_slots).ok
    /\ IF budget.kind = "text"
       THEN Return(OnException("ValueError"))
       ELSE IF ChosenTemplate = 0
       THEN (IF layout_template_id # 0
             THEN Return(ErrorResult("Layout template with ID does not exist"))
             ELSE Return(ErrorResult("No suitable template found for your preferences")))
       ELSE Return(ErrorResult("Invalid product_slots format in template"))
    /\ UNCHANGED <<session, inputs, suspended, report, chat_state, locals, designs, slot_budgets, slot_index,
                   product_recommendations, total_allocated>>

\* Lines 148-196 and 204-214: the locals and the DesignRecommendation row
CreateDesignRow ==
    /\ budget.kind # "text"
    /\ ChosenTemplate # 0
    /\ LET slots == NormalizeProductSlots(LayoutTemplates[ChosenTemplate].product_slots)
           tb    == IF budget.kind = "number" THEN budget.value
                    ELSE DefaultBudget(session.preferences)
       IN  /\ slots.ok
           /\ design' = Len(designs) + 1
           /\ template' = ChosenTemplate
           /\ product_slots_dict' = slots.dict
           /\ total_budget' = tb
           /\ material_budget' = MaterialBudget(tb)
           /\ labor_cost' = LaborCost(tb)
           /\ ai_reasoning' = GenerateDesignReasoning(text_generation_ok,
                                                      LayoutTemplates[ChosenTemplate], tb)
           /\ designs' = Append(designs,
                  [id |-> Len(designs) + 1, layout_template |-> ChosenTemplate,
                   ai_reasoning |-> ai_reasoning',
                   status |-> "generated", total_cost |-> 0])
    /\ pc' = "allocate"
    /\ UNCHANGED <<session, inputs, suspended, report, chat_state, slot_budgets, slot_index,
                   product_recommendations,
                   total_allocated, result>>

\* The request passes lines 148-186
ValidRequest ==
    /\ budget.kind # "text"
    /\ ChosenTemplate # 0
    /\ NormalizeProductSlots(LayoutTemplates[ChosenTemplate].product_slots).ok

\* Lines 148-214, after the wait for _generate_design_reasoning (line 192):
\* refresh_from_db, the is_active test of line 200 and the
\* DesignRecommendation row
CreateCheckedDesign ==
    /\ pc = "checked"
    /\ ValidRequest
    /\ IF ~session.is_active
       THEN /\ Return(ErrorResult("Session became inactive during processing"))
            /\ UNCHANGED <<session, inputs, suspended, report, chat_state, locals, designs,
                           slot_budgets, slot_index, product_recommendations,
                           total_allocated>>
       ELSE CreateDesignRow


(***************************************************************************)
(* _generate_optimized_products.                                           *)
(***************************************************************************)
\* The row created last, whichever call created it
LatestDesign == Len(designs)

\* The local variable design of lines 205-212
CurrentDesign == design

\* Lines 257-268: the slot budgets, or ZeroDivisionError caught at line 248
Allocate ==
    /\ pc = "allocate"
    /\ LET alloc == SlotBudgets(product_slots_dict, material_budget)
       IN  IF alloc.raised
           THEN /\ Return(OnException("ZeroDivisionError"))
                /\ UNCHANGED slot_budgets
           ELSE /\ slot_budgets' = alloc.budgets
                /\ pc' = "first_pass"
                /\ UNCHANGED result
    /\ UNCHANGED <<session, inputs, suspended, report, chat_state, locals, designs, slot_index,
                   product_recommendations, total_allocated>>

\* Lines 271-327: the loop body for the next slot of product_slots_dict
FillSlot ==
    /\ pc = "first_pass"
    /\ slot_index < Len(product_slots_dict)
    /\ slot_index' = slot_index + 1
    /\ product_recommendations' =
           FirstPassSlot(product_recommendations, CurrentDesign, catalog,
                         session.preferences,
                         product_slots_dict[slot_index + 1][1],
                         product_slots_dict[slot_index + 1][2],
                         slot_budgets[slot_index + 1])
    /\ total_allocated' = TotalPrice(product_recommendations')
    /\ UNCHANGED <<pc, session, inputs, suspended, report, chat_state, locals, designs, slot_budgets, result>>

FirstPassDone ==
    /\ pc = "first_pass"
    /\ slot_index = Len(product_slots_dict)

\* Lines 333-334
Redistribute ==
    /\ FirstPassDone
    /\ NeedsRedistribution(material_budget, total_allocated)
    /\ product_recommendations' =
           RedistributeRemainingBudget(product_recommendations,
                                       material_budget - total_allocated)
    /\ pc' = "totals"
    /\ UNCHANGED <<session, inputs, suspended, report, chat_state, locals, designs, slot_budgets, slot_index,
                   total_allocated, result>>

\* Lines 337-338
ScaleDown ==
    /\ FirstPassDone
    /\ ~NeedsRedistribution(material_budget, total_allocated)
    /\ NeedsScaleDown(material_budget, total_allocated)
    /\ product_recommendations' = ScaleDownToBudget(product_recommendations, material_budget)
    /\ pc' = "totals"
    /\ UNCHANGED <<session, inputs, suspended, report, chat_state, locals, designs, slot_budgets, slot_index,
                   total_allocated, result>>

\* Neither branch of the second pass applies
KeepAllocation ==
    /\ FirstPassDone
    /\ ~NeedsRedistribution(material_budget, total_allocated)
    /\ ~NeedsScaleDown(material_budget, total_allocated)
    /\ pc' = "totals"
    /\ UNCHANGED <<session, inputs, suspended, report, chat_state, locals, designs, slot_budgets, slot_index,
                   product_recommendations, total_allocated, result>>

(***************************************************************************)
(* generate_design_recommendation, lines 221-252: totals and the result.   *)
(***************************************************************************)
Finish ==
    /\ pc = "totals"
    /\ designs' = [designs EXCEPT ![CurrentDesign].total_cost =
                       TotalPrice(product_recommendations) + labor_cost]
    /\ IF total_budget = 0
       THEN Return(OnException("ZeroDivisionError"))
       ELSE Return(SuccessResult(CurrentDesign, LayoutTemplates[template], total_budget,
                                 labor_cost, ai_reasoning, product_recommendations,
                                 catalog))
    /\ UNCHANGED <<session, inputs, suspended, report, chat_state, locals, slot_budgets, slot_index,
                   product_recommendations, total_allocated>>

(***************************************************************************)
(* generate_pdf_report, lines 943-1131: the cost lines of the PDF, from    *)
(* the ProductRecommendation rows of the design.  labor_cost is the exact  *)
(* fraction n / d of a cent.                                                *)
(***************************************************************************)
\* Lines 980-983
PdfCosts(design_id, recs) ==
    [design_id |-> design_id,
     material_cost |-> TotalPrice(recs),
     labor_cost |-> [n |-> TotalPrice(recs) * 15, d |-> 100],
     total_project_cost |-> [n |-> TotalPrice(recs) * 115, d |-> 100]]

\* The except clause of lines 1127-1131: the function returns None
NoPdf == [returned |-> "None"]

\* The percentages of lines 1072-1073 divide by total_project_cost:
\* ZeroDivisionError when the selections sum to 0, and no PDF is written
PdfReport(design_id, recs) ==
    IF TotalPrice(recs) = 0 THEN NoPdf ELSE PdfCosts(design_id, recs)

\* ExportPDFView.get for the design the call has returned
GeneratePdfReport ==
    /\ pc = "done"
    /\ "design_id" \in DOMAIN result
    /\ report = NoReport
    /\ report' = PdfReport(result.design_id, product_recommendations)
    /\ UNCHANGED <<pc, session, inputs, suspended, chat_state, locals, designs, slot_budgets,
                   slot_index, product_recommendations, total_allocated, result>>

Next ==
    \/ RejectSession
    \/ RejectRequest
    \/ CheckSession
    \/ CreateCheckedDesign
    \/ Allocate
    \/ FillSlot
    \/ Redistribute
    \/ ScaleDown
    \/ KeepAllocation
    \/ Finish
    \/ GeneratePdfReport

Spec == Init /\ [][Next]_vars

(***************************************************************************)
(* _ai_select_best_product on its own (lines 899-941): the candidates are  *)
(* held in catalog, the preferences in session, the slot in                *)
(* product_slots_dict[1] and its budget in slot_budgets[1]; result is the  *)
(* returned product or the exception that leaves the call.                 *)
(***************************************************************************)
\* max_unit_price of the scenarios, in cents
MaxUnitPriceChoices == {10000, 24000}

\* A candidate priced at percent % of max_unit_price
Candidate(id, max_unit_price, percent, style, room_type) ==
    [id |-> id, name |-> "Candidate", category |-> "Pendant Lighting", style |-> style,
     room_type |-> room_type, material |-> "glass",
     price |-> (max_unit_price * percent) \div 100, is_available |-> TRUE]

\* The candidate sequences: product 1 at 200% and product 2 at 85% of
\* max_unit_price, in either order
CandidatePairs(max_unit_price) ==
    UNION { {<<over, fair>>, <<fair, over>>} :
              over \in {Candidate(1, max_unit_price, 200, st, rt) :
                           st \in {"modern", "rustic"}, rt \in {"kitchen", "bathroom"}},
              fair \in {Candidate(2, max_unit_price, 85, st, rt) :
                           st \in {"modern", "rustic"}, rt \in {"kitchen", "bathroom"}} }

\* Preferences that name a material
MaterialPreferences == { [room_type |-> "kitchen", style |-> "modern", material |-> "oak"] }

\* The sessions of the calls
ScorerSessions ==
    {c \in SessionChoices : c.exists /\ c.is_active /\ ~c.expired}
    \cup { [exists |-> TRUE, is_active |-> TRUE, expired |-> FALSE, preferences |-> p] :
               p \in MaterialPreferences }

\* The candidate sequences of two products that differ in material only:
\* product 3 of oak and product 4 of glass, in either order
MaterialPairs(max_unit_price) ==
    UNION { { << [Candidate(3, max_unit_price, 85, st, rt) EXCEPT !.material = "oak"],
                 Candidate(4, max_unit_price, 85, st, rt) >>,
              << Candidate(4, max_unit_price, 85, st, rt),
                 [Candidate(3, max_unit_price, 85, st, rt) EXCEPT !.material = "oak"] >> } :
              st \in {"modern", "rustic"}, rt \in {"kitchen", "bathroom"} }

\* The candidate sequences for a slot of max_unit_price: for a slot without
\* budget, the pairs that differ in material
ScorerCandidates(max_unit_price) ==
    IF max_unit_price = 0 THEN MaterialPairs(max_unit_price)
    ELSE CandidatePairs(max_unit_price) \cup MaterialPairs(max_unit_price)

ScorerInit ==
    /\ pc = "score"
    /\ session \in ScorerSessions
    /\ budget = [kind |-> "none", value |-> 0]
    /\ layout_template_id = 0
    /\ text_generation_ok = TRUE
    /\ \E max_unit_price \in MaxUnitPriceChoices \cup {0}, quantity \in {1, 3} :
           /\ catalog \in ScorerCandidates(max_unit_price)
           /\ product_slots_dict =
                  << <<"pendant_lights", SlotDict("pendant_lights", "Lighting", quantity, 12)>> >>
           /\ slot_budgets = << [n |-> max_unit_price * quantity, d |-> 1] >>
    /\ designs = <<>>
    /\ suspended = NoCall
    /\ report = NoReport
    /\ NoChat
    /\ design = 0
    /\ template = 0
    /\ total_budget = 0
    /\ material_budget = 0
    /\ labor_cost = 0
    /\ ai_reasoning = [kind |-> "none"]
    /\ slot_index = 0
    /\ product_recommendations = <<>>
    /\ total_allocated = 0
    /\ result = NoResult

\* One call of _ai_select_best_product
ScoreCandidates ==
    /\ pc = "score"
    /\ pc' = "scored"
    /\ result' = AiSelectBestProduct(catalog, session.preferences, slot_budgets[1],
                                     Quantity(product_slots_dict[1][2]))
    /\ UNCHANGED <<session, inputs, suspended, report, chat_state, locals, designs, slot_budgets, slot_index,
                   product_recommendations, total_allocated>>

ScorerNext == ScoreCandidates

ScorerSpec == ScorerInit /\ [][ScorerNext]_vars

(***************************************************************************)
(* Two calls of generate_design_recommendation, each with its own service  *)
(* object (views.py line 88), its own session and its own arguments, over  *)
(* the same Product and DesignRecommendation tables.  The variables hold   *)
(* the locals of the call that runs; suspended holds those of the other.   *)
(***************************************************************************)

\* The arguments and locals of a call
CallState(c_pc, c_session, c_budget, c_layout_template_id, c_text_generation_ok, c_locals, c_result) ==
    [pc |-> c_pc, session |-> c_session, budget |-> c_budget,
     layout_template_id |-> c_layout_template_id,
     text_generation_ok |-> c_text_generation_ok,
     locals |-> c_locals, result |-> c_result]

\* The locals of a call: those of generate_design_recommendation, then those
\* of _generate_optimized_products
LocalsOf(c_design, c_template, c_product_slots_dict, c_total_budget, c_material_budget, c_labor_cost, c_ai_reasoning, c_allocation) ==
    [design |-> c_design, template |-> c_template,
     product_slots_dict |-> c_product_slots_dict, total_budget |-> c_total_budget,
     material_budget |-> c_material_budget, labor_cost |-> c_labor_cost,
     ai_reasoning |-> c_ai_reasoning, allocation |-> c_allocation]

\* A call that has not started
NewCall(c_session, c_budget, c_layout_template_id) ==
    CallState("start", c_session, c_budget, c_layout_template_id, TRUE,
              LocalsOf(0, 0, <<>>, 0, 0, 0, [kind |-> "none"],
                       [slot_budgets |-> <<>>, slot_index |-> 0,
                        product_recommendations |-> <<>>, total_allocated |-> 0]),
              NoResult)

\* The call that runs
RunningCall ==
    CallState(pc, session, budget, layout_template_id, text_generation_ok,
              LocalsOf(design, template, product_slots_dict, total_budget, material_budget,
                       labor_cost, ai_reasoning,
                       [slot_budgets |-> slot_budgets, slot_index |-> slot_index,
                        product_recommendations |-> product_recommendations,
                        total_allocated |-> total_allocated]),
              result)

\* Budgets of the two calls, in dollars
FirstCallBudgets  == {1200, 8000, 12000}
SecondCallBudgets == {8000, 12000}

ConcurrentInit ==
    /\ pc = "start"
    /\ session = [exists |-> TRUE, is_active |-> TRUE, expired |-> FALSE,
                  preferences |-> NoPreferences]
    /\ \E b \in FirstCallBudgets : budget = [kind |-> "number", value |-> b]
    /\ layout_template_id = 1
    /\ text_generation_ok = TRUE
    /\ catalog \in CatalogChoices
    /\ designs = <<>>
    /\ \E b \in SecondCallBudgets, t \in {1, 5} :
           suspended = NewCall([exists |-> TRUE, is_active |-> TRUE, expired |-> FALSE,
                                preferences |-> [room_type |-> "kitchen", style |-> "modern"]],
                               [kind |-> "number", value |-> b], t)
    /\ report = NoReport
    /\ NoChat
    /\ design = 0
    /\ template = 0
    /\ product_slots_dict = <<>>
    /\ total_budget = 0
    /\ material_budget = 0
    /\ labor_cost = 0
    /\ ai_reasoning = [kind |-> "none"]
    /\ slot_budgets = <<>>
    /\ slot_index = 0
    /\ product_recommendations = <<>>
    /\ total_allocated = 0
    /\ result = NoResult

\* The scheduler stops the call that runs and resumes the other one
Switch ==
    /\ suspended' = RunningCall
    /\ pc' = suspended.pc
    /\ session' = suspended.session
    /\ budget' = suspended.budget
    /\ layout_template_id' = suspended.layout_template_id
    /\ text_generation_ok' = suspended.text_generation_ok
    /\ design' = suspended.locals.design
    /\ template' = suspended.locals.template
    /\ product_slots_dict' = suspended.locals.product_slots_dict
    /\ total_budget' = suspended.locals.total_budget
    /\ material_budget' = suspended.locals.material_budget
    /\ labor_cost' = suspended.locals.labor_cost
    /\ ai_reasoning' = suspended.locals.ai_reasoning
    /\ slot_budgets' = suspended.locals.allocation.slot_budgets
    /\ slot_index' = suspended.locals.allocation.slot_index
    /\ product_recommendations' = suspended.locals.allocation.product_recommendations
    /\ total_allocated' = suspended.locals.allocation.total_allocated
    /\ result' = suspended.result
    /\ UNCHANGED <<catalog, designs, report, chat_state>>

ConcurrentNext ==
    \/ CheckSession
    \/ CreateCheckedDesign
    \/ Allocate
    \/ FillSlot
    \/ Redistribute
    \/ ScaleDown
    \/ KeepAllocation
    \/ Finish
    \/ Switch

ConcurrentSpec == ConcurrentInit /\ [][ConcurrentNext]_vars

(***************************************************************************)
(* The chat endpoint: ChatView.post (showroom_agent/views.py) and          *)
(* ShowroomAIService.process_user_message (showroom_agent/services.py).    *)
(* A message is the text with what the substring tests and the regular     *)
(* expressions of the service find in it: contains, the keywords that      *)
(* occur in message.lower(); matches, what the first pattern of            *)
(* _extract_budget_amount finds; k_matches, what its other patterns find;  *)
(* thousands, whether 'k' or 'thousand' occurs in message.lower().         *)
(***************************************************************************)
NoWords == {}

Greeting ==
    [text |-> "hello", contains |-> NoWords, matches |-> <<>>, k_matches |-> <<>>,
     thousands |-> FALSE]

MessageChoices ==
    { Greeting,
      [text |-> "a modern kitchen", contains |-> {"modern", "kitchen"}, matches |-> <<>>,
       k_matches |-> <<>>, thousands |-> TRUE],
      [text |-> "it is a small room", contains |-> {"small"}, matches |-> <<>>,
       k_matches |-> <<>>, thousands |-> FALSE],
      [text |-> "$20,000", contains |-> NoWords, matches |-> <<20000>>,
       k_matches |-> <<>>, thousands |-> FALSE],
      [text |-> "a bathroom for 9k", contains |-> {"bathroom", "bath"}, matches |-> <<9>>,
       k_matches |-> <<9, 9, 9>>, thousands |-> TRUE] }

\* any(word in message_lower for word in words)
AnyWord(message, words) == message.contains \cap words # {}

\* Lines 297-300
ExtractedRoomType(message) ==
    IF AnyWord(message, {"bathroom", "bath", "shower", "toilet"}) THEN "bathroom"
    ELSE IF AnyWord(message, {"kitchen", "cook", "cabinet", "counter"}) THEN "kitchen"
    ELSE ""

\* _extract_budget_amount (lines 324-349): the first match, in the order of the
\* patterns, whose amount lies in 1000..500000; 0 for None
ExtractBudgetAmount(message) ==
    LET found == message.matches \o message.k_matches
        amount(n) == IF message.thousands THEN n * 1000 ELSE n
        accepted == {k \in 1..Len(found) : amount(found[k]) >= 1000 /\ amount(found[k]) <= 500000}
    IN  IF accepted = {} THEN 0
        ELSE amount(found[CHOOSE k \in accepted : \A j \in accepted : k <= j])

StyleWords == <<"modern", "traditional", "contemporary", "rustic", "minimalist", "industrial">>

\* Lines 308-312
ExtractedStyle(message) ==
    LET hits == {k \in 1..Len(StyleWords) : StyleWords[k] \in message.contains}
    IN  IF hits = {} THEN "" ELSE StyleWords[CHOOSE k \in hits : \A j \in hits : k <= j]

\* Lines 315-320
ExtractedRoomSize(message) ==
    IF AnyWord(message, {"small", "tiny", "compact"}) THEN "small"
    ELSE IF AnyWord(message, {"large", "big", "spacious"}) THEN "large"
    ELSE IF AnyWord(message, {"medium", "average"}) THEN "medium"
    ELSE ""

\* _extract_preferences_enhanced (lines 291-322): the dict extracted
ExtractPreferencesEnhanced(message) ==
    LET keys == {k \in {"room_type"} : ExtractedRoomType(message) # ""}
                \cup {k \in {"budget_amount"} : ExtractBudgetAmount(message) # 0}
                \cup {k \in {"style"} : ExtractedStyle(message) # ""}
                \cup {k \in {"room_size"} : ExtractedRoomSize(message) # ""}
    IN  [k \in keys |->
            CASE k = "room_type" -> ExtractedRoomType(message)
              [] k = "budget_amount" -> ExtractBudgetAmount(message)
              [] k = "style" -> ExtractedStyle(message)
              [] k = "room_size" -> ExtractedRoomSize(message)]

\* _update_session_preferences (lines 477-493): the keys written and the
\* preferences after the loop; every extracted value is truthy
UpdateSessionPreferences(prefs, new_preferences) ==
    LET written == {k \in DOMAIN new_preferences :
                       k \notin DOMAIN prefs \/ prefs[k] # new_preferences[k]}
    IN  [updated |-> written # {},
         preferences |-> [k \in DOMAIN prefs \cup written |->
                             IF k \in written THEN new_preferences[k] ELSE prefs[k]]]

\* essential_questions (lines 38-41), the same list for both room types
EssentialQuestions == <<"room_type", "style", "room_size", "budget_range">>

\* [key for key in essential if not prefs.get(key)]
MissingEssential(prefs) ==
    {k \in 1..Len(EssentialQuestions) : EssentialQuestions[k] \notin DOMAIN prefs}

\* _should_continue_questioning (lines 165-180)
ShouldContinueQuestioning(prefs, message_count) ==
    IF Get(prefs, "room_type", "") \notin {"bathroom", "kitchen"} THEN TRUE
    ELSE Cardinality(MissingEssential(prefs)) > 0 /\ message_count < 6

\* _should_save_interaction (lines 430-432)
ShouldSaveInteraction(count) == count % 2 = 0

\* _get_session_phase (lines 446-463)
GetSessionPhase(prefs) ==
    IF "room_type" \notin DOMAIN prefs THEN "room_identification"
    ELSE IF prefs["room_type"] \notin {"bathroom", "kitchen"} THEN "general"
    ELSE IF Cardinality(MissingEssential(prefs)) > 2 THEN "basic_info"
    ELSE IF MissingEssential(prefs) # {} THEN "detailed_info"
    ELSE "design_ready"

(***************************************************************************)
(* ChatView.post for the request in place i, one action per statement that *)
(* reads or writes the cache or the database.                               *)
(***************************************************************************)
\* generate_design_recommendation holds the row lock of line 130 inside the
\* transaction of views.py line 92: an UPDATE or DELETE of the row, and an
\* INSERT of a row that refers to it, wait for its end
SessionLocked == pc \in {"checked", "allocate", "first_pass", "totals"}

\* The variables of the design request, the session row apart
design_run == <<pc, inputs, suspended, report, locals, designs, slot_budgets, slot_index,
                product_recommendations, total_allocated, result, view_session>>

\* The session id has no row
NoSessionRow ==
    [exists |-> FALSE, is_active |-> FALSE, expired |-> FALSE, preferences |-> NoPreferences]

\* is_expired (models.py lines 134-138) of an object whose created_at is the
\* time of the c-th INSERT
IsExpired(c) == ages[c] >= 1

\* The object a request holds after reading the session row
SessionCopy ==
    [is_active |-> session.is_active, preferences |-> session.preferences,
     created_at |-> created_at]

\* session.save() without update_fields (UserSession.save, models.py lines
\* 72-93) from an object loaded before, first statement: the UPDATE of every
\* column, created_at of the object included
UpdateSession(is_active, prefs, c) ==
    /\ session' = [exists |-> TRUE, is_active |-> is_active, expired |-> IsExpired(c),
                   preferences |-> prefs]
    /\ created_at' = c
    /\ UNCHANGED <<ages, entry_before>>

\* session.save(), second statement, when the UPDATE found no row: the
\* INSERT, whose created_at (auto_now_add) is the time of the INSERT. A cache
\* entry written before it is more than 60 seconds old 24 hours later
InsertSession(is_active, prefs) ==
    /\ session' = [exists |-> TRUE, is_active |-> is_active, expired |-> FALSE,
                   preferences |-> prefs]
    /\ created_at' = Len(ages) + 1
    /\ ages' = Append(ages, 0)
    /\ entry_before' = IF request_count > 0 THEN entry_before \cup {Len(ages) + 1}
                       ELSE entry_before

\* The end of a request with an HTTP status
Respond(i, status, fields) ==
    chats' = [chats EXCEPT ![i] =
                 [pc |-> "done", message |-> chats[i].message, status |-> status,
                  fields |-> fields]]

NoFields == [k \in {} |-> ""]

\* Requests arrive while the session has fewer ChatInteraction rows than this.
MaxInteractions == 2

\* Lines 65-90: a valid message arrives and the counter is read
ChatArrive(i, message) ==
    /\ chats[i].pc \in {"idle", "done"}
    /\ interactions < MaxInteractions
    /\ chats' = [chats EXCEPT ![i] =
                    [pc |-> "counted", message |-> message, request_count |-> request_count]]
    /\ UNCHANGED <<design_run, session, interactions, request_count, admitted, created_at,
                   ages, entry_before, cleanup>>

\* Lines 92-98: 429, or the counter read at line 90 plus one is written for
\* another 60 seconds
ChatRateLimit(i) ==
    /\ chats[i].pc = "counted"
    /\ IF chats[i].request_count >= 10
       THEN /\ Respond(i, 429, NoFields)
            /\ UNCHANGED <<request_count, admitted, entry_before>>
       ELSE /\ request_count' = chats[i].request_count + 1
            /\ admitted' = admitted + 1
            /\ entry_before' = {}
            /\ chats' = [chats EXCEPT ![i] = [pc |-> "admitted", message |-> chats[i].message]]
    /\ UNCHANGED <<design_run, session, interactions, created_at, ages, cleanup>>

\* Lines 100-109: the SELECT of get_object_or_404, whose Http404 is caught at
\* line 134 (500), and the is_expired test on the object loaded
ChatLoadSession(i) ==
    /\ chats[i].pc = "admitted"
    /\ IF ~session.exists \/ ~session.is_active
       THEN Respond(i, 500, NoFields)
       ELSE chats' = [chats EXCEPT ![i] =
                [pc |-> IF IsExpired(created_at) THEN "expired" ELSE "loaded",
                 message |-> chats[i].message,
                 row |-> SessionCopy]]
    /\ UNCHANGED <<design_run, session, interactions, request_count, admitted, created_at,
                   ages, entry_before, cleanup>>

\* Lines 110-115: the object loaded at line 102 is saved with
\* is_active = False; the UPDATE of the save, and 410 when it found the row
ChatMarkExpired(i) ==
    /\ chats[i].pc = "expired"
    /\ IF session.exists
       THEN /\ ~SessionLocked
            /\ UpdateSession(FALSE, chats[i].row.preferences, chats[i].row.created_at)
            /\ Respond(i, 410, NoFields)
       ELSE /\ chats' = [chats EXCEPT ![i].pc = "expired_insert"]
            /\ UNCHANGED <<session, created_at, ages, entry_before>>
    /\ UNCHANGED <<design_run, interactions, request_count, admitted, cleanup>>

\* Line 111, the INSERT of the save whose UPDATE found no row (410); the
\* IntegrityError of a row inserted in between is caught at line 134 (500)
ChatInsertExpired(i) ==
    /\ chats[i].pc = "expired_insert"
    /\ IF session.exists
       THEN /\ Respond(i, 500, NoFields)
            /\ UNCHANGED <<session, created_at, ages, entry_before>>
       ELSE /\ InsertSession(FALSE, chats[i].row.preferences)
            /\ Respond(i, 410, NoFields)
    /\ UNCHANGED <<design_run, interactions, request_count, admitted, cleanup>>

\* services.py line 84: the row is read into the local session; DoesNotExist
\* is raised again at line 121 and caught at views.py line 134
ChatReadSession(i) ==
    /\ chats[i].pc = "loaded"
    /\ IF ~session.exists
       THEN Respond(i, 500, NoFields)
       ELSE chats' = [chats EXCEPT ![i] =
                [pc |-> "read_row", message |-> chats[i].message, row |-> SessionCopy]]
    /\ UNCHANGED <<design_run, session, interactions, request_count, admitted, created_at,
                   ages, entry_before, cleanup>>

\* services.py lines 90 and 165-180: _should_continue_questioning decides
\* the kind of answer from the local session and the COUNT of line 177
ChatCountMessages(i) ==
    /\ chats[i].pc = "read_row"
    /\ chats' = [chats EXCEPT ![i] =
                    [pc |-> "read", message |-> chats[i].message, row |-> chats[i].row,
                     should_ask_questions |->
                         ShouldContinueQuestioning(chats[i].row.preferences, interactions)]]
    /\ UNCHANGED <<design_run, session, interactions, request_count, admitted, created_at,
                   ages, entry_before, cleanup>>

\* services.py lines 98-101 and 477-496: the extracted preferences are merged
\* into the local session, and the UPDATE of session.save() writes every
\* column of it
ChatUpdateSession(i) ==
    /\ chats[i].pc = "read"
    /\ LET up == UpdateSessionPreferences(chats[i].row.preferences,
                                          ExtractPreferencesEnhanced(chats[i].message))
       IN  IF ~up.updated
           THEN /\ chats' = [chats EXCEPT ![i].pc = "updated"]
                /\ UNCHANGED <<session, created_at, ages, entry_before>>
           ELSE IF session.exists
           THEN /\ ~SessionLocked
                /\ UpdateSession(chats[i].row.is_active, up.preferences,
                                 chats[i].row.created_at)
                /\ chats' = [chats EXCEPT ![i].pc = "updated",
                                          ![i].row.preferences = up.preferences]
           ELSE /\ chats' = [chats EXCEPT ![i].pc = "inserting",
                                          ![i].row.preferences = up.preferences]
                /\ UNCHANGED <<session, created_at, ages, entry_before>>
    /\ UNCHANGED <<design_run, interactions, request_count, admitted, cleanup>>

\* services.py line 492, the INSERT of the save whose UPDATE found no row;
\* the IntegrityError of a row inserted in between is swallowed at line 495
ChatInsertSession(i) ==
    /\ chats[i].pc = "inserting"
    /\ IF session.exists
       THEN /\ chats' = [chats EXCEPT ![i].pc = "updated"]
            /\ UNCHANGED <<session, created_at, ages, entry_before>>
       ELSE /\ InsertSession(chats[i].row.is_active, chats[i].row.preferences)
            /\ chats' = [chats EXCEPT ![i].pc = "updated",
                                      ![i].row.created_at = Len(ages) + 1]
    /\ UNCHANGED <<design_run, interactions, request_count, admitted, cleanup>>

\* services.py line 109: _should_save_interaction counts the rows
ChatCountInteractions(i) ==
    /\ chats[i].pc = "updated"
    /\ chats' = [chats EXCEPT ![i] =
                    [pc |-> "decided", message |-> chats[i].message, row |-> chats[i].row,
                     should_ask_questions |-> chats[i].should_ask_questions,
                     save_interaction |-> ShouldSaveInteraction(interactions)]]
    /\ UNCHANGED <<design_run, session, interactions, request_count, admitted, created_at,
                   ages, entry_before, cleanup>>

\* The response of lines 112-118: the preferences extracted from this message
\* and the phase of the local session
ChatResponse(i) ==
    [preferences |-> ExtractPreferencesEnhanced(chats[i].message),
     should_ask_questions |-> chats[i].should_ask_questions,
     session_phase |-> GetSessionPhase(chats[i].row.preferences)]

\* services.py lines 110 and 434-444: the INSERT of the ChatInteraction; for
\* a session without row it raises IntegrityError, caught at line 443
ChatSaveInteraction(i) ==
    /\ chats[i].pc = "decided"
    /\ IF chats[i].save_interaction /\ session.exists
       THEN /\ ~SessionLocked
            /\ interactions' = interactions + 1
            /\ chats' = [chats EXCEPT ![i].pc = "saved"]
       ELSE /\ Respond(i, 200, ChatResponse(i))
            /\ UNCHANGED interactions
    /\ UNCHANGED <<design_run, session, request_count, admitted, created_at, ages, entry_before, cleanup>>

\* ChatInteraction.save (models.py lines 176-178): the UPDATE of the columns
\* total_interactions and last_activity of the session, which are not among
\* the columns kept here; without a row it raises DatabaseError, caught at
\* services.py line 443
ChatUpdateTotals(i) ==
    /\ chats[i].pc = "saved"
    /\ ~SessionLocked
    /\ Respond(i, 200, ChatResponse(i))
    /\ UNCHANGED <<design_run, session, interactions, request_count, admitted, created_at,
                   ages, entry_before, cleanup>>

\* The cache entry of line 98 times out after 60 seconds
RateLimitExpires ==
    /\ request_count > 0
    /\ request_count' = 0
    /\ admitted' = 0
    /\ entry_before' = {}
    /\ UNCHANGED <<design_run, session, chats, interactions, created_at, ages, cleanup>>

\* The variables of generate_design_recommendation before a call for the
\* template 'Modern Kitchen' over an empty Product table
IdleDesignRun ==
    /\ layout_template_id = 1
    /\ text_generation_ok = TRUE
    /\ catalog = <<>>
    /\ designs = <<>>
    /\ suspended = NoCall
    /\ report = NoReport
    /\ design = 0
    /\ template = 0
    /\ product_slots_dict = <<>>
    /\ total_budget = 0
    /\ material_budget = 0
    /\ labor_cost = 0
    /\ ai_reasoning = [kind |-> "none"]
    /\ slot_budgets = <<>>
    /\ slot_index = 0
    /\ product_recommendations = <<>>
    /\ total_allocated = 0
    /\ result = NoResult

NoDesignRun ==
    /\ pc = "start"
    /\ budget = [kind |-> "number", value |-> 8000]
    /\ IdleDesignRun

\* A session as StartSessionView creates it (views.py line 33)
NewSession ==
    [exists |-> TRUE, is_active |-> TRUE, expired |-> FALSE, preferences |-> NoPreferences]

(***************************************************************************)
(* The messages of one session, one request after the other.               *)
(***************************************************************************)
ChatInit ==
    /\ NoDesignRun
    /\ session = NewSession
    /\ NoChat

ChatNext ==
    \/ \E message \in MessageChoices : ChatArrive(1, message)
    \/ ChatRateLimit(1)
    \/ ChatLoadSession(1)
    \/ ChatReadSession(1)
    \/ ChatCountMessages(1)
    \/ ChatUpdateSession(1)
    \/ ChatCountInteractions(1)
    \/ ChatSaveInteraction(1)
    \/ ChatUpdateTotals(1)

ChatSpec == ChatInit /\ [][ChatNext]_vars

(***************************************************************************)
(* Requests for the same session handled at the same time.                 *)
(***************************************************************************)
RateLimitInit == ChatInit

RateLimitNext ==
    \/ \E i \in ChatIds : ChatArrive(i, Greeting)
    \/ \E i \in ChatIds : ChatRateLimit(i)
    \/ \E i \in ChatIds : ChatLoadSession(i)
    \/ \E i \in ChatIds : ChatReadSession(i)
    \/ \E i \in ChatIds : ChatCountMessages(i)
    \/ \E i \in ChatIds : ChatUpdateSession(i)
    \/ \E i \in ChatIds : ChatCountInteractions(i)
    \/ \E i \in ChatIds : ChatSaveInteraction(i)
    \/ \E i \in ChatIds : ChatUpdateTotals(i)
    \/ RateLimitExpires

RateLimitSpec == RateLimitInit /\ [][RateLimitNext]_vars

(***************************************************************************)
(* Chat requests, one design request through GenerateDesignView.post and   *)
(* cleanup requests for the same session, while the clock passes the 24    *)
(* hours of is_expired (models.py lines 134-138) and the 7 days of the     *)
(* cleanup.                                                                 *)
(***************************************************************************)
SessionInit ==
    /\ pc = "request"
    /\ budget \in {[kind |-> "number", value |-> v] : v \in {1200, 8000, 12000}}
    /\ IdleDesignRun
    /\ session = NewSession
    /\ NoChat

\* The design request but for pc, result, view_session and the session row
view_rest == <<inputs, suspended, report, locals, designs, slot_budgets, slot_index,
               product_recommendations, total_allocated, chats, interactions, request_count,
               admitted, cleanup>>

\* design_agent/views.py lines 18-56: the first read of the session,
\* filter(id=session_id).exists(); 404 without row
ViewSessionExists ==
    /\ pc = "request"
    /\ IF ~session.exists
       THEN Return(ErrorResult("Session with ID does not exist"))
       ELSE pc' = "exists" /\ UNCHANGED result
    /\ UNCHANGED <<view_rest, view_session, session, created_at, ages, entry_before>>

\* design_agent/views.py lines 59-69: the second read, get(id=session_id),
\* without lock; its DoesNotExist is answered at lines 110-115 (404), a
\* session that is not active with 410
ViewLoadSession ==
    /\ pc = "exists"
    /\ IF ~session.exists
       THEN /\ Return(ErrorResult("Session with ID not found. Please start a new session."))
            /\ UNCHANGED view_session
       ELSE IF ~session.is_active
       THEN /\ Return(ErrorResult("Session is not active. Please start a new session."))
            /\ UNCHANGED view_session
       ELSE /\ view_session' = SessionCopy
            /\ pc' = IF IsExpired(created_at) THEN "expired" ELSE "start"
            /\ UNCHANGED result
    /\ UNCHANGED <<view_rest, session, created_at, ages, entry_before>>

\* design_agent/views.py lines 70-75: the object read at line 59 is saved
\* with is_active = False; the UPDATE of the save, and 410 when it found the
\* row
ViewMarkExpired ==
    /\ pc = "expired"
    /\ IF session.exists
       THEN /\ UpdateSession(FALSE, view_session.preferences, view_session.created_at)
            /\ Return(ErrorResult("Session has expired. Please start a new session."))
       ELSE /\ pc' = "inserting"
            /\ UNCHANGED <<session, created_at, ages, entry_before, result>>
    /\ UNCHANGED <<view_rest, view_session>>

\* design_agent/views.py line 71, the INSERT of the save whose UPDATE found
\* no row (410); the IntegrityError of a row inserted in between is answered
\* at lines 116-123 (500)
ViewInsertExpired ==
    /\ pc = "inserting"
    /\ IF session.exists
       THEN /\ Return(OnException("IntegrityError"))
            /\ UNCHANGED <<session, created_at, ages, entry_before>>
       ELSE /\ InsertSession(FALSE, view_session.preferences)
            /\ Return(ErrorResult("Session has expired. Please start a new session."))
    /\ UNCHANGED <<view_rest, view_session>>

\* timezone.now() passes the created_at of the k-th INSERT + 24 hours, which
\* an earlier created_at has passed before. The cache entry of line 98 lives
\* 60 seconds whatever happens to the session: one written before the k-th
\* INSERT has timed out by now, a later one may still be there
Expire ==
    \E k \in 1..Len(ages) :
        /\ ages[k] = 0
        /\ k > 1 => ages[k - 1] >= 1
        /\ ages' = [ages EXCEPT ![k] = 1]
        /\ session' = IF session.exists /\ created_at = k
                      THEN [session EXCEPT !.expired = TRUE]
                      ELSE session
        /\ IF k \in entry_before
           THEN request_count' = 0 /\ admitted' = 0 /\ entry_before' = {}
           ELSE /\ entry_before' = IF request_count > 0 THEN entry_before \cup {k} ELSE {}
                /\ UNCHANGED <<request_count, admitted>>
        /\ UNCHANGED <<design_run, chats, interactions, created_at, cleanup>>

\* timezone.now() passes the created_at of the k-th INSERT + 7 days, six days
\* after its 24 hours: a cache entry written before those has timed out
WeekPasses ==
    \E k \in 1..Len(ages) :
        /\ ages[k] = 1
        /\ k > 1 => ages[k - 1] = 2
        /\ ages' = [ages EXCEPT ![k] = 2]
        /\ IF k \in entry_before
           THEN request_count' = 0 /\ admitted' = 0 /\ entry_before' = {}
           ELSE UNCHANGED <<request_count, admitted, entry_before>>
        /\ UNCHANGED <<design_run, session, chats, interactions, created_at, cleanup>>

\* Cleanup requests arrive while the session id has had fewer rows than this.
MaxCreations == 2

\* The DesignRecommendation rows another request can read: the row of line
\* 205 is inside the transaction of views.py line 92 until the call returns
CommittedDesigns ==
    IF pc \in {"allocate", "first_pass", "totals"} THEN Len(designs) - 1 ELSE Len(designs)

\* What a delete() of the cleanup has read and deleted so far: nothing
NothingCollected == [session |-> FALSE, designs |-> 0, interactions |-> 0]

\* SessionCleanupView.post, lines 225-242: the two cutoffs are computed and
\* old_sessions (created_at before now - 7 days) is counted
CleanupCountOld ==
    /\ cleanup.pc = "idle"
    /\ Len(ages) < MaxCreations
    /\ LET old == {k \in 1..Len(ages) : ages[k] = 2}
       IN  cleanup' = [pc |-> "counted_old",
                       old |-> old,
                       inactive |-> {k \in 1..Len(ages) : ages[k] >= 1},
                       old_count |-> IF session.exists /\ created_at \in old THEN 1 ELSE 0]
    /\ UNCHANGED <<design_run, session, chats, interactions, request_count, admitted,
                   created_at, ages, entry_before>>

\* Line 243: inactive_sessions (is_active False, created_at before now - 1
\* day) is counted
CleanupCountInactive ==
    /\ cleanup.pc = "counted_old"
    /\ cleanup' = [pc |-> "counted", old |-> cleanup.old, inactive |-> cleanup.inactive,
                   collected |-> NothingCollected,
                   sessions_cleaned |->
                       cleanup.old_count
                       + IF session.exists /\ ~session.is_active
                            /\ created_at \in cleanup.inactive
                         THEN 1 ELSE 0]
    /\ UNCHANGED <<design_run, session, chats, interactions, request_count, admitted,
                   created_at, ages, entry_before>>

\* The cleanup request at its next statement, with the rows its delete() has
\* read and deleted so far
CleanupAt(to, collected) ==
    [pc |-> to, old |-> cleanup.old, inactive |-> cleanup.inactive,
     sessions_cleaned |-> cleanup.sessions_cleaned, collected |-> collected]

\* A delete() of the cleanup (the Collector of django.db.models.deletion),
\* first statement: the SELECT of the sessions of the queryset; without a
\* session nothing else is sent
SelectSessions(matches, to, done) ==
    cleanup' = IF matches
               THEN CleanupAt(to, [NothingCollected EXCEPT !.session = TRUE])
               ELSE CleanupAt(done, NothingCollected)

\* Second statement: the SELECT of the DesignRecommendation rows that refer to
\* the sessions read
SelectDesigns(to) ==
    cleanup' = CleanupAt(to, [cleanup.collected EXCEPT !.designs = CommittedDesigns])

\* Inside the transaction of the delete(): the DELETE of the ChatInteraction
\* rows that refer to the sessions read, of the ProductRecommendation rows
\* that refer to the designs read, and of these designs by id; no other
\* request sees them before the commit
DeleteRelated(to) ==
    cleanup' = CleanupAt(to, [cleanup.collected EXCEPT !.interactions = interactions])

\* The DELETE of the sessions by id and the commit, on_delete = CASCADE. A
\* ChatInteraction or DesignRecommendation inserted since its rows were
\* deleted or read still refers to the session: the commit fails, the rows
\* stay and the request is answered at lines 257-261 (500)
DeleteSessions(to) ==
    /\ ~SessionLocked
    /\ IF Len(designs) # cleanup.collected.designs
          \/ interactions # cleanup.collected.interactions
       THEN /\ cleanup' = [pc |-> "idle", status |-> 500]
            /\ UNCHANGED <<session, created_at, designs, product_recommendations,
                           interactions>>
       ELSE /\ cleanup' = CleanupAt(to, NothingCollected)
            /\ session' = NoSessionRow
            /\ created_at' = 0
            /\ designs' = <<>>
            /\ product_recommendations' = <<>>
            /\ interactions' = 0

\* The variables a statement of the cleanup that deletes nothing leaves alone
cleanup_rest == <<design_run, session, chats, interactions, request_count, admitted,
                  created_at, ages, entry_before>>

\* Line 245, old_sessions.delete(): the SELECT of the sessions
CleanupSelectOld ==
    /\ cleanup.pc = "counted"
    /\ SelectSessions(session.exists /\ created_at \in cleanup.old, "old_sessions",
                      "old_deleted")
    /\ UNCHANGED cleanup_rest

\* Line 245: the SELECT of their designs
CleanupSelectOldDesigns ==
    /\ cleanup.pc = "old_sessions"
    /\ SelectDesigns("old_collected")
    /\ UNCHANGED cleanup_rest

\* Line 245: the DELETEs of the rows that refer to the sessions
CleanupDeleteOldRelated ==
    /\ cleanup.pc = "old_collected"
    /\ DeleteRelated("old_related")
    /\ UNCHANGED cleanup_rest

\* Line 245: the DELETE of the sessions and the commit
CleanupDeleteOld ==
    /\ cleanup.pc = "old_related"
    /\ DeleteSessions("old_deleted")
    /\ UNCHANGED <<pc, inputs, suspended, report, locals, slot_budgets, slot_index,
                   total_allocated, result, view_session, chats, request_count, admitted,
                   ages, entry_before>>

\* Line 246, inactive_sessions.delete(): the SELECT of the sessions
CleanupSelectInactive ==
    /\ cleanup.pc = "old_deleted"
    /\ SelectSessions(session.exists /\ ~session.is_active
                      /\ created_at \in cleanup.inactive, "inactive_sessions", "deleted")
    /\ UNCHANGED cleanup_rest

\* Line 246: the SELECT of their designs
CleanupSelectInactiveDesigns ==
    /\ cleanup.pc = "inactive_sessions"
    /\ SelectDesigns("inactive_collected")
    /\ UNCHANGED cleanup_rest

\* Line 246: the DELETEs of the rows that refer to the sessions
CleanupDeleteInactiveRelated ==
    /\ cleanup.pc = "inactive_collected"
    /\ DeleteRelated("inactive_related")
    /\ UNCHANGED cleanup_rest

\* Line 246: the DELETE of the sessions and the commit
CleanupDeleteInactive ==
    /\ cleanup.pc = "inactive_related"
    /\ DeleteSessions("deleted")
    /\ UNCHANGED <<pc, inputs, suspended, report, locals, slot_budgets, slot_index,
                   total_allocated, result, view_session, chats, request_count, admitted,
                   ages, entry_before>>

\* SessionCleanupView.post, lines 248-255: cache.clear() and the answer
CleanupClearCache ==
    /\ cleanup.pc = "deleted"
    /\ cleanup' = [pc |-> "idle", status |-> 200,
                   sessions_cleaned |-> cleanup.sessions_cleaned]
    /\ request_count' = 0
    /\ admitted' = 0
    /\ entry_before' = {}
    /\ UNCHANGED <<design_run, session, chats, interactions, created_at, ages>>

SessionMessages == {m \in MessageChoices : m.text = "a modern kitchen"}

\* Chat requests arrive here while the rate limit entry is below this.
MaxSessionRequests == 2

SessionNext ==
    \/ ViewSessionExists
    \/ ViewLoadSession
    \/ ViewMarkExpired
    \/ ViewInsertExpired
    \/ RejectSession
    \/ CheckSession
    \/ CreateCheckedDesign
    \/ Allocate
    \/ FillSlot
    \/ Redistribute
    \/ ScaleDown
    \/ KeepAllocation
    \/ Finish
    \/ Expire
    \/ WeekPasses
    \/ RateLimitExpires
    \/ CleanupCountOld
    \/ CleanupCountInactive
    \/ CleanupSelectOld
    \/ CleanupSelectOldDesigns
    \/ CleanupDeleteOldRelated
    \/ CleanupDeleteOld
    \/ CleanupSelectInactive
    \/ CleanupSelectInactiveDesigns
    \/ CleanupDeleteInactiveRelated
    \/ CleanupDeleteInactive
    \/ CleanupClearCache
    \/ \E message \in SessionMessages :
           request_count < MaxSessionRequests /\ ChatArrive(1, message)
    \/ ChatRateLimit(1)
    \/ ChatLoadSession(1)
    \/ ChatMarkExpired(1)
    \/ ChatInsertExpired(1)
    \/ ChatReadSession(1)
    \/ ChatCountMessages(1)
    \/ ChatUpdateSession(1)
    \/ ChatInsertSession(1)
    \/ ChatCountInteractions(1)
    \/ ChatSaveInteraction(1)
    \/ ChatUpdateTotals(1)

SessionSpec == SessionInit /\ [][SessionNext]_vars

(***************************************************************************)
(* Properties of the design run.                                           *)
(***************************************************************************)

\* _generate_optimized_products has returned its list
SecondPassDone == pc = "totals"

\* The run reached the allocation with at least one slot and a positive
\* material budget
AllocatesPositiveBudget == Len(product_slots_dict) >= 1 /\ material_budget > 0

TotalQuantity(recs) == SumSeq([i \in 1..Len(recs) |-> recs[i].quantity])

IsSynthesized(prod_rec) == prod_rec.product = 0

\* C1 as the specification states it: after the second pass material_cost
\* lies within [0.98, 1.05] x material_budget, for any template with at least
\* one slot and any positive material budget.
C1_BandOfSpec ==
    (SecondPassDone /\ AllocatesPositiveBudget)
        => /\ 98 * material_budget <= 100 * TotalPrice(product_recommendations)
           /\ 100 * TotalPrice(product_recommendations) <= 105 * material_budget

\* C1, budget convergence as the code provides it: when the first pass
\* allocated more than 0 of a positive material budget, after the second pass
\* material_cost lies within [0.95, 1.02] x material_budget, up to 0.02 of
\* rounding per selected unit (the second pass leaves a first-pass total
\* between 95% and 102% of the material budget as it is).
C1_BudgetConvergence ==
    (SecondPassDone /\ AllocatesPositiveBudget /\ total_allocated > 0)
        => /\ 95 * material_budget <=
                  100 * TotalPrice(product_recommendations)
                      + 200 * TotalQuantity(product_recommendations)
           /\ 100 * TotalPrice(product_recommendations) <=
                  102 * material_budget + 200 * TotalQuantity(product_recommendations)

\* A second pass that left the first-pass total, below 98% of the material
\* budget, as it was
C1_Witness ==
    /\ SecondPassDone
    /\ AllocatesPositiveBudget
    /\ total_allocated = TotalPrice(product_recommendations)
    /\ 100 * total_allocated < 98 * material_budget
    /\ \E i \in 1..Len(product_recommendations) :
           IsSynthesized(product_recommendations[i])

\* The names of the slots of a template's product_slots (lines 170-182): the
\* name of a list entry, slot_<index> for one without a name, the keys of a dict
TemplateSlotNames(product_slots) ==
    IF product_slots.kind = "list"
    THEN {IF product_slots.items[i].isdict
          THEN Get(product_slots.items[i].d, "name", SlotIndexName(i - 1))
          ELSE SlotIndexName(i - 1) : i \in 1..Len(product_slots.items)}
    ELSE IF product_slots.kind = "dict"
    THEN {product_slots.items[i][1] : i \in 1..Len(product_slots.items)}
    ELSE {}

SelectionsOf(recs, slot_name) == {i \in 1..Len(recs) : recs[i].slot_name = slot_name}

\* C2, full slot coverage: the list returned by _generate_optimized_products
\* holds exactly one selection for every slot of the template and none for
\* any other name, whatever the catalog contains.
C2_FullSlotCoverage ==
    SecondPassDone
        => /\ \A name \in TemplateSlotNames(LayoutTemplates[template].product_slots) :
                  Cardinality(SelectionsOf(product_recommendations, name)) = 1
           /\ \A i \in 1..Len(product_recommendations) :
                  product_recommendations[i].slot_name
                      \in TemplateSlotNames(LayoutTemplates[template].product_slots)

\* A returned list that holds a catalog product and a synthesized one
C2_Witness ==
    /\ SecondPassDone
    /\ \E i, j \in 1..Len(product_recommendations) :
           /\ IsSynthesized(product_recommendations[i])
           /\ ~IsSynthesized(product_recommendations[j])

\* C3 as the specification states it: for every selection of a finished run,
\* total_price = round(unit_price x quantity, 2) with the stored unit_price
\* (both prices are whole cents, so the rounding changes nothing).
C3_PriceConsistency ==
    (pc = "done" /\ "status" \in DOMAIN result)
        => \A i \in 1..Len(product_recommendations) :
               product_recommendations[i].total_price =
                   product_recommendations[i].unit_price
                       * product_recommendations[i].quantity

\* the slot budgets are those of the current run
SlotBudgetsComputed == pc \in {"first_pass", "totals"}

\* C4, weight normalization: when the weights of the slots sum to P > 0, the
\* slot budgets computed at the start of _generate_optimized_products sum to
\* material_budget within 0.01 (slot budget i is the fraction n / d of a cent).
C4_WeightNormalization ==
    (SlotBudgetsComputed /\ TotalPercentage(product_slots_dict) > 0)
        => \A d \in {slot_budgets[i].d : i \in 1..Len(slot_budgets)} :
               /\ \A i \in 1..Len(slot_budgets) : slot_budgets[i].d = d
               /\ SumSeq([i \in 1..Len(slot_budgets) |-> slot_budgets[i].n])
                      <= (material_budget + 1) * d
               /\ SumSeq([i \in 1..Len(slot_budgets) |-> slot_budgets[i].n])
                      >= (material_budget - 1) * d

\* Slot budgets of a positive material budget under weights that do not sum to 100
C4_Witness ==
    /\ SlotBudgetsComputed
    /\ material_budget > 0
    /\ Len(slot_budgets) >= 2
    /\ TotalPercentage(product_slots_dict) \notin {0, 100}

\* C5 as the specification states it: when the template has slots and every
\* weight is 0 (P = 0), the allocation does not fail and the run completes
\* with every slot filled by a synthesized item.
C5_DegenerateWeights ==
    (/\ pc = "done"
     /\ designs # <<>>
     /\ total_budget > 0
     /\ product_slots_dict # <<>>
     /\ TotalPercentage(product_slots_dict) = 0)
        => /\ "status" \in DOMAIN result
           /\ Len(slot_budgets) = Len(product_slots_dict)
           /\ \A i \in 1..Len(slot_budgets) : slot_budgets[i].n = 0
           /\ Len(product_recommendations) = Len(product_slots_dict)
           /\ \A i \in 1..Len(product_recommendations) :
                  IsSynthesized(product_recommendations[i])

\* C6 as the specification states it: a call on a template whose
\* product_slots holds no slot, or is neither a list nor a dict, ends with an
\* error result and no success result.
C6_InvalidSlotConfiguration ==
    (/\ pc = "done"
     /\ ChosenTemplate # 0
     /\ TemplateSlotNames(LayoutTemplates[ChosenTemplate].product_slots) = {})
        => /\ "error" \in DOMAIN result
           /\ "status" \notin DOMAIN result

\* C7, outcome dichotomy: every call returns either the complete result of
\* lines 227-246 with status 'success', or a dict whose only key is 'error';
\* no exception leaves the call.
C7_OutcomeDichotomy ==
    pc = "done"
        => \/ DOMAIN result = {"error"}
           \/ /\ DOMAIN result = SuccessKeys
              /\ result.status = "success"
              /\ result.product_count = Len(product_recommendations)
              /\ result.total_cost = result.material_cost + result.labor_cost
              /\ result.cost_breakdown.grand_total = result.total_cost

\* A call that failed after its DesignRecommendation row was created
C7_Witness ==
    /\ pc = "done"
    /\ designs # <<>>
    /\ "error" \in DOMAIN result
    /\ result.error[1] = "Design generation failed"

\* The budget of the slot called slot_name
SlotBudgetOf(slot_name) ==
    slot_budgets[CHOOSE k \in 1..Len(product_slots_dict) :
                     product_slots_dict[k][1] = slot_name]

\* 0.7 x base_price x quantity for a slot name of premium_products, 0 otherwise
MinimumTotal(prod_rec) ==
    IF prod_rec.slot_name \in DOMAIN premium_products
    THEN (7 * premium_products[prod_rec.slot_name].base_price * prod_rec.quantity) \div 10
    ELSE 0

\* C8, synthesis at zero budget: the selection that
\* _create_budget_maximizing_product returns for a slot whose budget is 0 has
\* total_price 0.7 x base_price x quantity when the slot name is known, 0
\* when it is not, and never a negative one.
C8_SynthesisAtZeroBudget ==
    pc = "first_pass"
        => \A i \in 1..Len(product_recommendations) :
               (/\ IsSynthesized(product_recommendations[i])
                /\ SlotBudgetOf(product_recommendations[i].slot_name).n = 0)
                   => /\ product_recommendations[i].total_price =
                             MinimumTotal(product_recommendations[i])
                      /\ product_recommendations[i].total_price >= 0

\* A first pass that synthesized, at zero budget, a slot with a known name
\* and a slot with an unknown one
C8_Witness ==
    /\ pc = "first_pass"
    /\ \E i, j \in 1..Len(product_recommendations) :
           /\ IsSynthesized(product_recommendations[i])
           /\ SlotBudgetOf(product_recommendations[i].slot_name).n = 0
           /\ product_recommendations[i].slot_name \in DOMAIN premium_products
           /\ product_recommendations[i].total_price > 0
           /\ IsSynthesized(product_recommendations[j])
           /\ SlotBudgetOf(product_recommendations[j].slot_name).n = 0
           /\ product_recommendations[j].slot_name \notin DOMAIN premium_products
           /\ product_recommendations[j].total_price = 0

\* The slots of the Modern Kitchen scenario: name, weight, budget in cents
ModernKitchenBudgets ==
    << <<"kitchen_cabinet", 40, 272000>>, <<"kitchen_island", 25, 170000>>,
       <<"bar_stools", 15, 102000>>, <<"pendant_lights", 12, 81600>>,
       <<"kitchen_appliances", 8, 54400>> >>

RunsModernKitchenAt8000 ==
    /\ SlotBudgetsComputed
    /\ LayoutTemplates[template].name = "Modern Kitchen"
    /\ total_budget = 8000

\* C10, the Modern Kitchen scenario: with total_budget 8000 the material
\* budget is 6800, the labor cost 1200, and the slot budgets are
\* kitchen_cabinet 2720, kitchen_island 1700, bar_stools 1020, pendant_lights
\* 816 and kitchen_appliances 544, which sum to 6800.
C10_ModernKitchenScenario ==
    RunsModernKitchenAt8000
        => /\ material_budget = 680000
           /\ labor_cost = 120000
           /\ Len(slot_budgets) = Len(ModernKitchenBudgets)
           /\ \A i \in 1..Len(slot_budgets) :
                  /\ product_slots_dict[i][1] = ModernKitchenBudgets[i][1]
                  /\ BudgetPercentage(product_slots_dict[i][2]) = ModernKitchenBudgets[i][2]
                  /\ slot_budgets[i].n = ModernKitchenBudgets[i][3] * slot_budgets[i].d
           /\ SumSeq([i \in 1..Len(ModernKitchenBudgets) |-> ModernKitchenBudgets[i][3]])
                  = 680000

\* The scenario with an explicit budget of 8000 and every slot budget computed
C10_Witness ==
    /\ RunsModernKitchenAt8000
    /\ budget.kind = "number"
    /\ layout_template_id = 0
    /\ Len(slot_budgets) = Len(ModernKitchenBudgets)

\* The catalog query of _recommend_products_for_slot finds no product for any
\* slot of the run
NoSlotMatches ==
    \A k \in 1..Len(product_slots_dict) :
        SlotCandidates(catalog, product_slots_dict[k][2], session.preferences,
                       slot_budgets[k]) = <<>>

\* A successful Modern Kitchen run in which no slot matched a catalog product
ModernKitchenUnmatched ==
    /\ pc = "done"
    /\ "status" \in DOMAIN result
    /\ LayoutTemplates[template].name = "Modern Kitchen"
    /\ total_budget > 0
    /\ NoSlotMatches

AllSynthesizedWithReasoning(recs) ==
    \A i \in 1..Len(recs) : IsSynthesized(recs[i]) /\ recs[i].reasoning # <<>>

\* C11 as the specification states it: in the empty-catalog scenario the
\* design has 5 synthesized selections with reasoning and material_cost lies
\* within [0.98, 1.05] x material_budget.
C11_EmptyCatalogBandOfSpec ==
    ModernKitchenUnmatched
        => /\ Len(product_recommendations) = 5
           /\ AllSynthesizedWithReasoning(product_recommendations)
           /\ 98 * material_budget <= 100 * result.material_cost
           /\ 100 * result.material_cost <= 105 * material_budget

\* C11, the empty-catalog scenario as the code provides it: for the Modern
\* Kitchen template and a positive budget, when no slot matches a catalog
\* product the design has exactly 5 selections, all synthesized with
\* non-empty reasoning, total_cost is material_cost + labor_cost, and
\* material_cost lies within [0.95, 1.02] x material_budget up to 0.02 of
\* rounding per selected unit.
C11_EmptyCatalogScenario ==
    ModernKitchenUnmatched
        => /\ Len(product_recommendations) = 5
           /\ result.product_count = 5
           /\ AllSynthesizedWithReasoning(product_recommendations)
           /\ result.total_cost = result.material_cost + labor_cost
           /\ 95 * material_budget <=
                  100 * result.material_cost + 200 * TotalQuantity(product_recommendations)
           /\ 100 * result.material_cost <=
                  102 * material_budget + 200 * TotalQuantity(product_recommendations)

\* The scenario at budget 8000 with products in the catalog that match no
\* slot: material_cost stays below 98% of the material budget
C11_Witness ==
    /\ ModernKitchenUnmatched
    /\ total_budget = 8000
    /\ catalog # <<>>
    /\ 100 * result.material_cost < 98 * material_budget

\* C12, over-priced candidate: from a candidate sequence holding a product at
\* 200% of max_unit_price (product 1) and a product of the same category at
\* 85% of it, the scorer does not return the product at 200%, whatever the
\* style and room type of the two products.
C12_OverPricedNotSelected ==
    (pc = "scored" /\ \E i \in 1..Len(catalog) : catalog[i].id = 1)
        => result.product # 1

\* The scorer was called with the over-priced product first, which matches
\* the style and the room type the session asks for while the product at 85%
\* matches neither, and did not return it
C12_Witness ==
    /\ pc = "scored"
    /\ Len(catalog) = 2
    /\ catalog[1].id = 1
    /\ catalog[2].id = 2
    /\ "style" \in DOMAIN session.preferences
    /\ "room_type" \in DOMAIN session.preferences
    /\ catalog[1].style = session.preferences.style
    /\ catalog[1].room_type = session.preferences.room_type
    /\ catalog[2].style # session.preferences.style
    /\ catalog[2].room_type # session.preferences.room_type
    /\ result.product # 1

\* The selections of the first n slots of `slots`, from the catalog, the
\* preferences and the slot budgets alone
RECURSIVE FirstPassOn(_, _, _)
FirstPassOn(slots, budgets, n) ==
    IF n = 0 THEN <<>>
    ELSE FirstPassSlot(FirstPassOn(slots, budgets, n - 1), CurrentDesign, catalog,
                       session.preferences, slots[n][1], slots[n][2], budgets[n])

FirstPassOf(n) == FirstPassOn(product_slots_dict, slot_budgets, n)

SecondPassOf(recs, first_total) ==
    IF NeedsRedistribution(material_budget, first_total)
    THEN RedistributeRemainingBudget(recs, material_budget - first_total)
    ELSE IF NeedsScaleDown(material_budget, first_total)
    THEN ScaleDownToBudget(recs, material_budget)
    ELSE recs

BothPassesOf(recs) == SecondPassOf(recs, TotalPrice(recs))

\* What the run selects, whatever the text generation did
SelectionsOfInputs == BothPassesOf(FirstPassOf(Len(product_slots_dict)))

\* The budget of the call: the argument, or the default of the room type
BudgetOfInputs ==
    IF budget.kind = "number" THEN budget.value ELSE DefaultBudget(session.preferences)

\* The call got past validation and its text generation failed
TextGenerationFailed == pc = "done" /\ designs # <<>> /\ ~text_generation_ok

\* C13, text-generation failure is contained: when the text-generation call
\* fails the run ends as the other inputs decide (with an error only for a
\* zero budget or all-zero weights), ai_reasoning is the static paragraph
\* naming the template, its style, its room type and the budget, and the
\* selections and costs are those the catalog, preferences, template and
\* budget determine, hence the same as when the call succeeds.
C13_TextFailureContained ==
    TextGenerationFailed
        => /\ ai_reasoning = [kind |-> "fallback",
                              template |-> LayoutTemplates[ChosenTemplate].name,
                              style |-> LayoutTemplates[ChosenTemplate].style,
                              room_type |-> LayoutTemplates[ChosenTemplate].room_type,
                              budget |-> BudgetOfInputs]
           /\ designs[1].ai_reasoning = ai_reasoning
           /\ ("status" \in DOMAIN result)
                  = (/\ total_budget > 0
                     /\ (product_slots_dict = <<>> \/ TotalPercentage(product_slots_dict) > 0))
           /\ "status" \in DOMAIN result
                  => /\ result.ai_reasoning = ai_reasoning
                     /\ product_recommendations = SelectionsOfInputs
                     /\ result.material_cost = TotalPrice(product_recommendations)
                     /\ result.labor_cost = LaborCost(BudgetOfInputs)
                     /\ result.total_cost = result.material_cost + result.labor_cost

\* A successful run whose text generation failed, with a catalog product and
\* a synthesized one among its selections
C13_Witness ==
    /\ TextGenerationFailed
    /\ "status" \in DOMAIN result
    /\ result.ai_reasoning.kind = "fallback"
    /\ \E i, j \in 1..Len(product_recommendations) :
           /\ IsSynthesized(product_recommendations[i])
           /\ ~IsSynthesized(product_recommendations[j])

\* The slot budgets of the call, from its arguments and its template alone
SlotBudgetsOfInputs ==
    SlotBudgets(NormalizeProductSlots(LayoutTemplates[ChosenTemplate].product_slots).dict,
                MaterialBudget(BudgetOfInputs)).budgets

\* The call that runs has returned while the other call had created its design
ReturnedBesideOtherCall ==
    /\ pc = "done"
    /\ "status" \in DOMAIN result
    /\ suspended.pc \notin {"absent", "start"}

\* C14, run isolation: however two calls are interleaved, the slot budgets,
\* the selections and the costs of a call that has returned are those its own
\* arguments, its template and the catalog determine (what it produces when
\* run alone), every selection of its list belongs to its own design, and
\* the other call holds none of them.
C14_RunIsolation ==
    ReturnedBesideOtherCall
        => /\ slot_budgets = SlotBudgetsOfInputs
           /\ product_recommendations = SelectionsOfInputs
           /\ \A i \in 1..Len(product_recommendations) :
                  product_recommendations[i].design = design
           /\ \A j \in 1..Len(suspended.locals.allocation.product_recommendations) :
                  suspended.locals.allocation.product_recommendations[j].design # design
           /\ design # suspended.locals.design
           /\ result.design_id = design
           /\ result.material_cost = TotalPrice(product_recommendations)
           /\ result.labor_cost = LaborCost(BudgetOfInputs)
           /\ result.total_cost = result.material_cost + result.labor_cost
           /\ designs[design].total_cost = result.total_cost

\* The call that created its design first returns while the other call, which
\* created its design later, is in the middle of its first pass
C14_Witness ==
    /\ ReturnedBesideOtherCall
    /\ design = 1
    /\ suspended.pc = "first_pass"
    /\ suspended.locals.allocation.slot_index = 1
    /\ Len(product_recommendations) = 5

\* A list of slot dicts that all carry a name, no two the same
UniquelyNamedList(product_slots) ==
    /\ product_slots.kind = "list"
    /\ \A i \in 1..Len(product_slots.items) :
           /\ product_slots.items[i].isdict
           /\ "name" \in DOMAIN product_slots.items[i].d
    /\ \A i, j \in 1..Len(product_slots.items) :
           product_slots.items[i].d.name = product_slots.items[j].d.name => i = j

\* The slot names of the templates as a jsonb object orders its keys: shorter
\* keys first, keys of one length by their bytes (product_slots is a JSONField,
\* stored as jsonb on PostgreSQL, which does not keep the order the keys were
\* written in)
JsonbKeyOrder ==
    <<"hob", "sink", "mirror", "slot_0", "slot_1", "slot_2", "slot_3", "slot_4",
       "slot_5", "chimney", "wall_art", "wine_rack", "bar_stools", "bench_seat",
       "chandelier", "countertop", "dining_table", "installation", "towel_warmer",
       "dining_chairs", "double_vanity", "luxury_mirror", "kitchen_island",
       "pendant_lights", "vanity_cabinet", "kitchen_cabinet", "luxury_lighting",
       "shower_fixtures", "storage_shelves", "wooden_cabinets", "premium_fixtures",
       "bathroom_lighting", "kitchen_appliances" >>

JsonbRank(key) == CHOOSE r \in 1..Len(JsonbKeyOrder) : JsonbKeyOrder[r] = key

\* The items of a dict as they are read back from the jsonb column
JsonbObject(items) ==
    SortSeq(items, LAMBDA a, b : JsonbRank(a[1]) < JsonbRank(b[1]))

\* The same slots in the other encoding, as template.product_slots holds it:
\* a list of dicts as the dict keyed by the slot names (each value the slot
\* without its 'name'), its keys in jsonb order; a dict as the list of its
\* values in the order of the keys, each with its key as 'name'
OtherEncoding(product_slots) ==
    IF product_slots.kind = "list"
    THEN [kind |-> "dict",
          items |-> JsonbObject([i \in 1..Len(product_slots.items) |->
              <<product_slots.items[i].d.name,
                [k \in DOMAIN product_slots.items[i].d \ {"name"} |->
                    product_slots.items[i].d[k]]>>])]
    ELSE [kind |-> "list",
          items |-> [i \in 1..Len(product_slots.items) |->
              [isdict |-> TRUE,
               d |-> [k \in DOMAIN product_slots.items[i][2] \cup {"name"} |->
                         IF k = "name" THEN product_slots.items[i][1]
                         ELSE product_slots.items[i][2][k]]]]]

\* A normalized slot without the 'name' key, which the list encoding keeps
\* inside the slot and the dict encoding has as the key only
WithoutName(slot_info) == [k \in DOMAIN slot_info \ {"name"} |-> slot_info[k]]

\* The slots normalized from the other encoding of the run's template
OtherSlots ==
    NormalizeProductSlots(OtherEncoding(LayoutTemplates[template].product_slots)).dict

\* The selections of a run on the slots normalized from the other encoding
OtherSelections ==
    BothPassesOf(FirstPassOn(OtherSlots, SlotBudgets(OtherSlots, material_budget).budgets,
                             Len(OtherSlots)))

\* Position by position the same slot (up to 'name'), the same slot budget and
\* the same selection
SameRunInSameOrder ==
    /\ Len(OtherSlots) = Len(product_slots_dict)
    /\ \A i \in 1..Len(product_slots_dict) :
           /\ OtherSlots[i][1] = product_slots_dict[i][1]
           /\ WithoutName(OtherSlots[i][2]) = WithoutName(product_slots_dict[i][2])
    /\ SlotBudgets(OtherSlots, material_budget).budgets = slot_budgets
    /\ OtherSelections = product_recommendations

\* Slot name by slot name the same slot (up to 'name'), the same slot budget
\* and the same selection
SameRunPerSlot ==
    /\ Len(OtherSlots) = Len(product_slots_dict)
    /\ Len(OtherSelections) = Len(product_recommendations)
    /\ \A i \in 1..Len(product_slots_dict) :
           \E j \in 1..Len(OtherSlots) :
               /\ OtherSlots[j][1] = product_slots_dict[i][1]
               /\ WithoutName(OtherSlots[j][2]) = WithoutName(product_slots_dict[i][2])
               /\ SlotBudgets(OtherSlots, material_budget).budgets[j] = slot_budgets[i]
               /\ OtherSelections[j] = product_recommendations[i]

\* The slots of the other encoding are iterated in the order of its kind: a
\* list in the order of its items, a dict in the jsonb order of its keys
IteratedInStoredOrder ==
    /\ LayoutTemplates[template].product_slots.kind = "dict"
           => \A i \in 1..Len(OtherSlots) : OtherSlots[i][1] = product_slots_dict[i][1]
    /\ LayoutTemplates[template].product_slots.kind = "list"
           => \A i, j \in 1..Len(OtherSlots) :
                  i < j => JsonbRank(OtherSlots[i][1]) < JsonbRank(OtherSlots[j][1])

\* The run has made its selections from slots that can be encoded both ways
SelectedFromEncodableSlots ==
    /\ SecondPassDone
    /\ \/ UniquelyNamedList(LayoutTemplates[template].product_slots)
       \/ LayoutTemplates[template].product_slots.kind = "dict"

\* C15 as the specification states it: for slots with unique names, the list
\* of dicts and the dict keyed by slot name normalize to the same slots, and
\* give the same slot budgets and the same selections in the same order (the
\* slots compared without the 'name' key of the list encoding).
C15_SameOrderOfSpec ==
    SelectedFromEncodableSlots
        => /\ NormalizeProductSlots(OtherEncoding(LayoutTemplates[template].product_slots)).ok
           /\ SameRunInSameOrder

\* C15, slot-encoding equivalence as the code provides it: for slots with
\* unique names, the list of dicts and the dict keyed by slot name normalize
\* to the same slot for every name (up to the 'name' key the list encoding
\* keeps inside the slot) and give every slot name the same slot budget and
\* the same selection; the slots and selections of a list come in the order of
\* the list, those of a dict in the jsonb order of its keys.
C15_SlotEncodingEquivalence ==
    SelectedFromEncodableSlots
        => /\ NormalizeProductSlots(OtherEncoding(LayoutTemplates[template].product_slots)).ok
           /\ SameRunPerSlot
           /\ IteratedInStoredOrder

\* Selections, synthesized and from the catalog, made from a list of five
\* named slots whose dict encoding is iterated in another order
C15_Witness ==
    /\ SelectedFromEncodableSlots
    /\ LayoutTemplates[template].product_slots.kind = "list"
    /\ Len(product_recommendations) = 5
    /\ OtherSlots[1][1] # product_slots_dict[1][1]
    /\ \E i, j \in 1..Len(product_recommendations) :
           /\ IsSynthesized(product_recommendations[i])
           /\ ~IsSynthesized(product_recommendations[j])

\* What the scorer returned for a slot: nothing when there is no candidate
\* (it is not called) or when it raised, else the product it chose
ScorerReturned(candidates, slot_info, slot_budget) ==
    IF candidates = <<>> THEN [raised |-> FALSE, product |-> 0]
    ELSE AiSelectBestProduct(candidates, session.preferences, slot_budget,
                             Quantity(slot_info))

\* The returned product costs at most 1.5 x slot_budget for the slot's quantity
ReturnedWithinTolerance(returned, slot_info, slot_budget) ==
    /\ ~returned.raised
    /\ returned.product # 0
    /\ ProductById(catalog, returned.product).price * Quantity(slot_info) * slot_budget.d * 2
           <= 3 * slot_budget.n

\* The selection is the returned product when that is within tolerance, and
\* is synthesized otherwise
SelectionFollows(prod_rec, returned, slot_info, slot_budget) ==
    IF ReturnedWithinTolerance(returned, slot_info, slot_budget)
    THEN prod_rec.product = returned.product
    ELSE IsSynthesized(prod_rec)

SlotAccepted(i) ==
    SelectionFollows(product_recommendations[i],
        ScorerReturned(SlotCandidates(catalog, product_slots_dict[i][2], session.preferences,
                                      slot_budgets[i]),
                       product_slots_dict[i][2], slot_budgets[i]),
        product_slots_dict[i][2], slot_budgets[i])

\* C16, slot acceptance rule: a slot's selection references a catalog product
\* exactly when the scorer returned a product whose price x quantity is at
\* most 1.5 x slot_budget, and that product is the one referenced; in every
\* other case the selection is synthesized with product = none.
C16_SlotAcceptanceRule ==
    \A i \in 1..Len(product_recommendations) :
        /\ product_recommendations[i].slot_name = product_slots_dict[i][1]
        /\ SlotAccepted(i)

\* The scorer raised on the candidates of slot i
ScorerRaisedFor(i) ==
    ScorerReturned(SlotCandidates(catalog, product_slots_dict[i][2], session.preferences,
                                  slot_budgets[i]),
                   product_slots_dict[i][2], slot_budgets[i]).raised

\* A first pass with a slot filled from the catalog, a slot synthesized for
\* want of candidates and a slot synthesized because the scorer raised
C16_Witness ==
    /\ pc = "totals"
    /\ \E i, j, k \in 1..Len(product_recommendations) :
           /\ ~IsSynthesized(product_recommendations[i])
           /\ IsSynthesized(product_recommendations[j])
           /\ SlotCandidates(catalog, product_slots_dict[j][2], session.preferences,
                             slot_budgets[j]) = <<>>
           /\ IsSynthesized(product_recommendations[k])
           /\ ScorerRaisedFor(k)

\* The second pass redistributed a surplus over a positive first-pass total
SurplusRedistributed ==
    /\ SecondPassDone
    /\ NeedsRedistribution(material_budget, total_allocated)
    /\ total_allocated > 0

Abs(x) == IF x < 0 THEN -x ELSE x

\* raise is share[1] + share[2] / den within `cents`, for 0 <= share[2] < den
WithinOfShare(raise, share, cents) ==
    /\ raise - share[1] <= cents
    /\ raise - share[1] >= (IF share[2] > 0 THEN 1 ELSE 0) - cents

\* new_total is old_total + remaining x old_total / current_total within
\* `cents`, for remaining = material_budget - current_total
RaisedByShare(old_total, new_total, current_total, cents) ==
    WithinOfShare(new_total - old_total,
                  MulDivQR(material_budget - current_total, old_total, current_total),
                  cents)

\* Every selection of `first` is raised by its share of the surplus within
\* 0.01 in the selections of the run
EachRaisedByShare(first) ==
    /\ Len(first) = Len(product_recommendations)
    /\ \A i \in 1..Len(first) :
           RaisedByShare(first[i].total_price, product_recommendations[i].total_price,
                         total_allocated, 1)

\* C17, surplus redistribution: whenever the first pass leaves more than 5% of
\* material_budget over a positive total, every total_price is the first-pass
\* total_price raised by remaining x share (within 0.01), and the total_price
\* values sum to material_budget within 0.01 per selection.
C17_SurplusRedistribution ==
    SurplusRedistributed
        => /\ EachRaisedByShare(FirstPassOf(Len(product_slots_dict)))
           /\ Abs(TotalPrice(product_recommendations) - material_budget)
                  <= Len(product_recommendations)

\* The second pass scaled down a first-pass total above 1.02 x material_budget
OverageScaledDown ==
    /\ SecondPassDone
    /\ ~NeedsRedistribution(material_budget, total_allocated)
    /\ NeedsScaleDown(material_budget, total_allocated)

\* new_total is old_total x material_budget / current_total within 0.01, and
\* neither price of the selection went up
ScaledByFactor(old, new, current_total) ==
    /\ WithinOfShare(new.total_price,
                     MulDivQR(old.total_price, material_budget, current_total), 1)
    /\ new.total_price <= old.total_price
    /\ new.unit_price <= old.unit_price

EachScaledByFactor(first) ==
    /\ Len(first) = Len(product_recommendations)
    /\ \A i \in 1..Len(first) :
           ScaledByFactor(first[i], product_recommendations[i], total_allocated)

\* C18, overage scale-down: whenever the first-pass sum of total_price exceeds
\* 1.02 x material_budget, every selection is scaled by material_budget /
\* current total, no selection's unit_price or total_price increases, and the
\* total_price values sum to material_budget within 0.01 per selection.
C18_OverageScaleDown ==
    OverageScaledDown
        => /\ EachScaledByFactor(FirstPassOf(Len(product_slots_dict)))
           /\ Abs(TotalPrice(product_recommendations) - material_budget)
                  <= Len(product_recommendations)

\* A scale-down of several selections, one of them of several units, from a
\* positive material budget
C18_Witness ==
    /\ OverageScaledDown
    /\ material_budget > 0
    /\ TotalPrice(product_recommendations) < total_allocated
    /\ Len(product_recommendations) >= 2
    /\ \E i \in 1..Len(product_recommendations) : product_recommendations[i].quantity > 1

\* C19, non-negative prices: in every state of a design run (during the first
\* pass, after redistribution and after scale-down), with a non-negative
\* budget, non-negative catalog prices and quantities of at least 1, every
\* selection's unit_price and total_price are >= 0.
C19_NonNegativePrices ==
    \A i \in 1..Len(product_recommendations) :
        /\ product_recommendations[i].quantity >= 1
        /\ product_recommendations[i].unit_price >= 0
        /\ product_recommendations[i].total_price >= 0

\* Selections from the catalog and synthesized, scaled down to a positive
\* material budget
C19_Witness ==
    /\ OverageScaledDown
    /\ material_budget > 0
    /\ \E i, j \in 1..Len(product_recommendations) :
           /\ IsSynthesized(product_recommendations[i])
           /\ ~IsSynthesized(product_recommendations[j])
           /\ product_recommendations[j].total_price > 0

\* The selection of slot i is as the synthesizer priced it, for a slot name
\* of the static lookup
SynthesizedFromLookup(i) ==
    /\ pc = "first_pass"
    /\ i \in 1..Len(product_recommendations)
    /\ IsSynthesized(product_recommendations[i])
    /\ product_slots_dict[i][1] \in DOMAIN premium_products

\* target_unit_price = slot_budget x 0.92 / quantity, as <<whole cents,
\* remainder>> over TargetDen
TargetDen(slot_info, slot_budget) == slot_budget.d * 100 * Quantity(slot_info)

TargetUnitPrice(slot_info, slot_budget) ==
    MulDivQR(slot_budget.n, 92, TargetDen(slot_info, slot_budget))

\* The unit price the claim states, for a whole number of cents base_price,
\* a cap of base_price x scaling_factor and the target rounded to 0.01
StatedUnitPrice(unit_price, target, rounded_target, base_price, cap) ==
    IF target[1] < cap
    THEN unit_price = rounded_target
    ELSE 10 * unit_price >= 7 * base_price

\* The unit price of lines 470-473: min(target, cap) for a target above
\* base_price, else max(target, 0.7 x base_price)
LookupUnitPrice(unit_price, target, rounded_target, base_price, cap) ==
    IF target[1] > base_price \/ (target[1] = base_price /\ target[2] > 0)
    THEN unit_price = (IF target[1] >= cap THEN cap ELSE rounded_target)
    ELSE unit_price = (IF 10 * target[1] < 7 * base_price
                       THEN (7 * base_price) \div 10 ELSE rounded_target)

StatedPriceOf(prod_rec, slot_name, slot_info, slot_budget) ==
    StatedUnitPrice(prod_rec.unit_price, TargetUnitPrice(slot_info, slot_budget),
        RoundHalfEven(TargetUnitPrice(slot_info, slot_budget)[1],
                      TargetUnitPrice(slot_info, slot_budget)[2],
                      TargetDen(slot_info, slot_budget)),
        premium_products[slot_name].base_price,
        (premium_products[slot_name].base_price
             * premium_products[slot_name].scaling_factor) \div 10)

LookupPriceOf(prod_rec, slot_name, slot_info, slot_budget) ==
    LookupUnitPrice(prod_rec.unit_price, TargetUnitPrice(slot_info, slot_budget),
        RoundHalfEven(TargetUnitPrice(slot_info, slot_budget)[1],
                      TargetUnitPrice(slot_info, slot_budget)[2],
                      TargetDen(slot_info, slot_budget)),
        premium_products[slot_name].base_price,
        (premium_products[slot_name].base_price
             * premium_products[slot_name].scaling_factor) \div 10)

\* C20 as the specification states it: for a slot name of the static lookup,
\* if base_price x scaling_factor exceeds the target unit price the unit_price
\* is the target, otherwise it is at least 0.7 x base_price.
C20_ClampedToTargetOfSpec ==
    \A i \in 1..Len(product_slots_dict) :
        SynthesizedFromLookup(i)
            => StatedPriceOf(product_recommendations[i], product_slots_dict[i][1],
                             product_slots_dict[i][2], slot_budgets[i])

\* C20, synthesizer pricing rule as the code provides it: for a slot name of
\* the static lookup and target = slot_budget x 0.92 / quantity, the unit_price
\* is min(target, base_price x scaling_factor) when the target exceeds
\* base_price, and max(target, 0.7 x base_price) otherwise, rounded to 0.01.
C20_SynthesizerPricingRule ==
    \A i \in 1..Len(product_slots_dict) :
        SynthesizedFromLookup(i)
            => LookupPriceOf(product_recommendations[i], product_slots_dict[i][1],
                             product_slots_dict[i][2], slot_budgets[i])

\* The target of slot i is below 0.7 x base_price
TargetBelowFloor(i) ==
    10 * TargetUnitPrice(product_slots_dict[i][2], slot_budgets[i])[1]
        < 7 * premium_products[product_slots_dict[i][1]].base_price

\* The target of slot i is at least base_price x scaling_factor
TargetAboveCap(i) ==
    10 * TargetUnitPrice(product_slots_dict[i][2], slot_budgets[i])[1]
        >= premium_products[product_slots_dict[i][1]].base_price
               * premium_products[product_slots_dict[i][1]].scaling_factor

\* A first pass that synthesized one slot at its floor, above a positive
\* target, one at its cap and one at its target
C20_Witness ==
    \E i, j, k \in 1..Len(product_slots_dict) :
        /\ SynthesizedFromLookup(i) /\ TargetBelowFloor(i) /\ slot_budgets[i].n > 0
        /\ SynthesizedFromLookup(j) /\ TargetAboveCap(j)
        /\ SynthesizedFromLookup(k) /\ ~TargetBelowFloor(k) /\ ~TargetAboveCap(k)

\* The rubric score of a candidate (lines 908-933) for max_unit_price =
\* slot_budget / quantity: style 5, room type 3, price band 5, 3 or 2 (none
\* when max_unit_price is 0), availability 2
RubricScore(product, preferences, slot_budget, quantity) ==
    (IF "style" \in DOMAIN preferences /\ preferences.style = product.style THEN 5 ELSE 0)
    + (IF "room_type" \in DOMAIN preferences /\ preferences.room_type = product.room_type
       THEN 3 ELSE 0)
    + (IF slot_budget.n > 0
       THEN PriceBandScore(product.price * slot_budget.d * quantity, slot_budget.n)
       ELSE 0)
    + (IF product.is_available THEN 2 ELSE 0)

\* Candidate i has the highest rubric score, and is the first to have it
FirstOfHighestScore(products, i, preferences, slot_budget, quantity) ==
    /\ \A j \in 1..Len(products) :
           RubricScore(products[j], preferences, slot_budget, quantity)
               <= RubricScore(products[i], preferences, slot_budget, quantity)
    /\ \A j \in 1..(i - 1) :
           RubricScore(products[j], preferences, slot_budget, quantity)
               < RubricScore(products[i], preferences, slot_budget, quantity)

\* C21, highest score wins: from two or more candidates the scorer returns a
\* product of maximal rubric score, and among those of maximal score the first
\* in iteration order.
C21_HighestScoreWins ==
    (pc = "scored" /\ Len(catalog) >= 2)
        => /\ ~result.raised
           /\ \E i \in 1..Len(catalog) :
                  /\ catalog[i].id = result.product
                  /\ FirstOfHighestScore(catalog, i, session.preferences, slot_budgets[1],
                                         Quantity(product_slots_dict[1][2]))

\* The slot-name keywords of the breakdown and their categories, in the order
\* they are tried
SlotKeywordCategories ==
    << <<{"cabinet", "storage", "vanity"}, "Storage & Cabinetry">>,
       <<{"light", "chandelier"}, "Lighting">>,
       <<{"fixture", "shower", "faucet"}, "Fixtures">>,
       <<{"appliance", "hob", "chimney"}, "Appliances">>,
       <<{"stool", "chair"}, "Seating">>,
       <<{"countertop", "surface"}, "Surfaces">> >>

\* Some keyword of entry k occurs in the slot name
KeywordMatch(slot_name, k) == KeywordsIn[slot_name] \cap SlotKeywordCategories[k][1] # {}

\* The category of the first keyword match, or `fallback` without a match
KeywordCategory(slot_name, fallback) ==
    IF \E k \in 1..Len(SlotKeywordCategories) : KeywordMatch(slot_name, k)
    THEN SlotKeywordCategories[CHOOSE k \in 1..Len(SlotKeywordCategories) :
             /\ KeywordMatch(slot_name, k)
             /\ \A h \in 1..(k - 1) : ~KeywordMatch(slot_name, h)][2]
    ELSE fallback

\* The category a selection belongs under: that of its product, else that of
\* its slot name
GroupingCategory(prod_rec, fallback) ==
    IF IsSynthesized(prod_rec) THEN KeywordCategory(prod_rec.slot_name, fallback)
    ELSE ProductById(catalog, prod_rec.product).category

\* The run succeeded and returned its cost breakdown
BreakdownReturned == pc = "done" /\ "cost_breakdown" \in DOMAIN result

\* The places <<category index, item index>> of the breakdown that hold the
\* selection of a slot
PlacesOf(categories, slot_name) ==
    {place \in UNION {{<<c, k>> : k \in 1..Len(categories[c][2].items)} :
                          c \in 1..Len(categories)} :
        categories[place[1]][2].items[place[2]].slot_name = slot_name}

\* The selection is listed once, under `category`, with its prices
ListedOnceUnder(categories, prod_rec, category) ==
    /\ Cardinality(PlacesOf(categories, prod_rec.slot_name)) = 1
    /\ \A place \in PlacesOf(categories, prod_rec.slot_name) :
           /\ categories[place[1]][1] = category
           /\ categories[place[1]][2].items[place[2]].total_price = prod_rec.total_price
           /\ categories[place[1]][2].items[place[2]].product = prod_rec.product

\* Labor is one category of one item, and every other category holds
\* selections only
LaborOnItsOwn(categories, recs) ==
    /\ Cardinality({c \in 1..Len(categories) : categories[c][1] = "Labor & Installation"}) = 1
    /\ \A c \in 1..Len(categories) :
           IF categories[c][1] = "Labor & Installation"
           THEN /\ Len(categories[c][2].items) = 1
                /\ categories[c][2].subtotal = labor_cost
                /\ categories[c][2].items[1].total_price = labor_cost
           ELSE /\ \A k \in 1..Len(categories[c][2].items) :
                       \E i \in 1..Len(recs) :
                           recs[i].slot_name = categories[c][2].items[k].slot_name
                /\ categories[c][2].subtotal =
                       SumSeq([k \in 1..Len(categories[c][2].items) |->
                                  categories[c][2].items[k].total_price])

\* Every selection is listed once under its category, with `fallback` for a
\* slot name without keyword
GroupedWithFallback(categories, recs, fallback) ==
    /\ \A i \in 1..Len(recs) :
           ListedOnceUnder(categories, recs[i], GroupingCategory(recs[i], fallback))
    /\ LaborOnItsOwn(categories, recs)

\* C22, cost-breakdown grouping, with the fallback category read under the
\* name the code gives it: every selection appears in exactly one category of
\* the cost breakdown, the product's category for a catalog product, otherwise
\* the category of the first slot-name keyword that matches, otherwise
\* "Accessories"; labor is the one item of the category "Labor & Installation",
\* which holds no selection.
C22_CostBreakdownGrouping ==
    BreakdownReturned
        => GroupedWithFallback(result.cost_breakdown.categories, product_recommendations,
                               "Accessories")

\* Candidates that differ in nothing the rubric reads but their material
OtherwiseIdentical(a, b) ==
    /\ a.style = b.style
    /\ a.room_type = b.room_type
    /\ a.price = b.price
    /\ a.is_available = b.is_available
    /\ a.category = b.category

\* Of the two candidates scored, candidate i is of the preferred material
\* and the other one is not
OnlyMaterialMatch(i) ==
    /\ pc = "scored"
    /\ Len(catalog) = 2
    /\ i \in 1..2
    /\ "material" \in DOMAIN session.preferences
    /\ catalog[i].material = session.preferences.material
    /\ catalog[3 - i].material # session.preferences.material
    /\ OtherwiseIdentical(catalog[1], catalog[2])

\* C23, material rubric item: between two candidates that are identical but
\* for their material, the scorer selects the one whose material matches the
\* preferred material, whether it comes first or second.
C23_MaterialRubricItem ==
    \A i \in 1..2 :
        OnlyMaterialMatch(i) => ~result.raised /\ result.product = catalog[i].id

\* C27, failure leaves no stored design: whenever the call returns an error
\* result, the stored designs are those of before the call (none) and no
\* ProductRecommendation of the call remains.
C27_FailureLeavesNoDesign ==
    (pc = "done" /\ "error" \in DOMAIN result)
        => designs = <<>> /\ product_recommendations = <<>>

\* An available product of the slot's category that costs at most
\* 1.5 x slot_budget / quantity
Qualifies(product, slot_info, slot_budget) ==
    /\ product.is_available
    /\ CategoryFilter(<<product>>, Get(slot_info, "category", "")) # <<>>
    /\ product.price * slot_budget.d * Quantity(slot_info) * 2 <= 3 * slot_budget.n

\* The catalog holds a product that qualifies for slot i
SomeProductQualifies(i) ==
    \E k \in 1..Len(catalog) :
        Qualifies(catalog[k], product_slots_dict[i][2], slot_budgets[i])

\* C29, real product preferred whenever one qualifies: a slot for which the
\* catalog holds an available product of its category priced at most
\* 1.5 x slot_budget / quantity is filled with a catalog product, never with a
\* synthesized one, and the product selected passes total_price <=
\* 1.5 x slot_budget.
C29_RealProductPreferred ==
    \A i \in 1..Len(product_recommendations) :
        /\ SomeProductQualifies(i) => ~IsSynthesized(product_recommendations[i])
        /\ (pc = "first_pass" /\ ~IsSynthesized(product_recommendations[i]))
               => product_recommendations[i].total_price * slot_budgets[i].d * 2
                      <= 3 * slot_budgets[i].n


\* The PDF of a design has been written
Reported == "design_id" \in DOMAIN report

\* C28: for every generated design, the labor cost and the total project cost
\* of generate_pdf_report equal the labor_cost and total_cost of the result of
\* generate_design_recommendation, which is also the stored design.total_cost
C28_ReportAgreesWithResult ==
    Reported =>
        /\ report.labor_cost.n = result.labor_cost * report.labor_cost.d
        /\ report.total_project_cost.n = result.total_cost * report.total_project_cost.d
        /\ result.total_cost = designs[report.design_id].total_cost

(***************************************************************************)
(* Properties of the chat endpoint.                                        *)
(***************************************************************************)
\* The requests let through before the one in place i, when every request
\* ends before the next one arrives and the cache entry does not time out
EarlierMessages(i) == admitted - 1

InKitchenOrBathroom(prefs) == Get(prefs, "room_type", "") \in {"kitchen", "bathroom"}

\* C24: for a kitchen or bathroom session, once six chat messages have been
\* processed, _should_continue_questioning returns false for every later
\* message, even if essential preferences are still missing
C24_QuestioningCutOff ==
    \A i \in ChatIds :
        (/\ chats[i].pc = "read"
         /\ EarlierMessages(i) >= 6
         /\ InKitchenOrBathroom(chats[i].row.preferences))
            => ~chats[i].should_ask_questions

\* C25: at most 10 requests are let through to processing while the rate
\* limit entry of a session lasts, also when requests are handled concurrently
C25_AtMostTenAdmitted == admitted <= 10

\* The messages processed so far supplied a room type (kitchen or bathroom),
\* a style, a room size and a budget amount
Supplied(prefs) ==
    /\ {"room_type", "style", "room_size", "budget_amount"} \subseteq DOMAIN prefs
    /\ InKitchenOrBathroom(prefs)

\* C30: once the chat messages processed have supplied a room type (kitchen or
\* bathroom), a style, a room size and a budget amount, _get_session_phase
\* returns 'design_ready' and _should_continue_questioning returns false
C30_DesignReadyThroughChat ==
    \A i \in ChatIds :
        /\ (/\ chats[i].pc = "done"
            /\ chats[i].status = 200
            /\ Supplied(session.preferences))
               => chats[i].fields.session_phase = "design_ready"
        /\ (chats[i].pc = "read" /\ Supplied(chats[i].row.preferences))
               => ~chats[i].should_ask_questions


\* C26: a DesignRecommendation is created only for a session that is active and
\* not expired at that moment, and no step of a chat or design request sets
\* is_active back to True
C26_SessionGate ==
    [][/\ Len(designs') > Len(designs)
           => session.exists /\ session.is_active /\ ~session.expired
       /\ session'.is_active => session.is_active]_vars


====
